---- MODULE Spec2Model ----
(***************************************************************************)
(* Model of slog-syslog's SyslogDrain (src/src/drain.rs): the process-wide  *)
(* LAST_UNIQUE_IDENT mutex, SyslogDrain::from_builder, Drop for SyslogDrain *)
(* and Drain::log, together with the message formatting of                  *)
(* src/src/format.rs that log calls.  The POSIX transport (openlog,         *)
(* syslog, closelog) is modelled as the kind of libc described in the       *)
(* comment on LAST_UNIQUE_IDENT: it keeps the ident pointer, the option     *)
(* word and the facility in global variables.                               *)
(***************************************************************************)
EXTENDS Integers, Sequences, FiniteSets, TLC

(***************************************************************************)
(* Bounds of the model.                                                     *)
(***************************************************************************)
NThreads == 2
NAddr == 2
\* Most from_builder and log calls of a history.
MaxOps == 3
\* Most calls of a history, drops included.
MaxAll == 4
\* Number of Streamer3164::log calls.
MaxLogs == 3
\* Largest raw value given to Priority::from_raw.
MaxRaw == 23
\* Longest string given to the value escaper.
MaxLen == 3
\* Longest key-value list of a logger and of a record given to fmt.
MaxKVs == 2
\* Deepest nesting of WithFormat and WithPriority around an adapter.
MaxWrap == 2

Threads == 1..NThreads
\* Heap addresses an owned ident string (Box<CStr>) can be allocated at.
Addr == 1..NAddr
\* Every drain is built by one operation.
DrainIds == 1..MaxOps

(***************************************************************************)
(* libc constants used by the code.                                         *)
(***************************************************************************)
LOG_EMERG == 0
LOG_ALERT == 1
LOG_CRIT == 2
LOG_ERR == 3
LOG_WARNING == 4
LOG_NOTICE == 5
LOG_INFO == 6
LOG_DEBUG == 7
LOG_PID == 1
LOG_ODELAY == 4
LOG_NDELAY == 8
LOG_NOWAIT == 16
LOG_PERROR == 32
LOG_KERN == 0
LOG_USER == 8
LOG_MAIL == 16
LOG_LOCAL0 == 128
LOG_LOCAL1 == 136

\* ptr::null::<c_char>() as usize
NullPtr == 0
\* Address of a &'static CStr given to SyslogBuilder::ident (never freed).
StaticIdent == 100

(***************************************************************************)
(* Text is a sequence of bytes.                                             *)
(***************************************************************************)
NUL == 0
Space == 32
DQuote == 34
Equals == 61
LBracket == 91
Backslash == 92
RBracket == 93

\* Display of slog::Error::Other: "serialization error".
ErrText(e) ==
    IF e = "Other"
    THEN <<115, 101, 114, 105, 97, 108, 105, 122, 97, 116, 105, 111, 110,
           32, 101, 114, 114, 111, 114>>
    ELSE <<102, 111, 114, 109, 97, 116, 116, 105, 110, 103, 32, 101, 114,
           114, 111, 114>>

MessageF == "%s"
ErrorMessageF == "Error fully formatting the previous log message: %s"

(***************************************************************************)
(* src/src/format.rs                                                        *)
(***************************************************************************)
IsSpecial(c) == c = Backslash \/ c = DQuote \/ c = RBracket

\* s.find(|c| c == '\\' || c == '"' || c == ']'): 0 when there is none.
FindSpecial(s) ==
    IF \E i \in 1..Len(s) : IsSpecial(s[i])
    THEN CHOOSE i \in 1..Len(s) :
            IsSpecial(s[i]) /\ \A j \in 1..(i - 1) : ~IsSpecial(s[j])
    ELSE 0

\* Mutant: a backslash is copied unescaped.
EscaperWriteChar_NoBackslash(c) ==
    IF c = DQuote THEN <<Backslash, DQuote>>
    ELSE IF c = RBracket THEN <<Backslash, RBracket>>
    ELSE <<c>>

\* Mutant: a closing bracket is copied unescaped.
EscaperWriteChar_NoBracket(c) ==
    IF c = Backslash THEN <<Backslash, Backslash>>
    ELSE IF c = DQuote THEN <<Backslash, DQuote>>
    ELSE <<c>>

\* Rfc5424LikeValueEscaper::write_char
EscaperWriteChar(c) ==
    IF c = Backslash THEN <<Backslash, Backslash>>
    ELSE IF c = DQuote THEN <<Backslash, DQuote>>
    ELSE IF c = RBracket THEN <<Backslash, RBracket>>
    ELSE <<c>>

RECURSIVE EscaperWriteStr(_)
\* Rfc5424LikeValueEscaper::write_str
EscaperWriteStr(s) ==
    LET index == FindSpecial(s) IN
    IF index = 0
    THEN s
    ELSE SubSeq(s, 1, index - 1) \o EscaperWriteChar(s[index])
            \o EscaperWriteStr(SubSeq(s, index + 1, Len(s)))

\* One write_str call on the wrapped sink W, which accepts `left` more calls
\* and returns Err(fmt::Error) on every call after them.  w is the escaper's
\* progress: the bytes the sink took, the calls it still accepts, the error.
SinkWriteStr(w, bytes) ==
    IF w.err THEN w
    ELSE IF w.left = 0 THEN [w EXCEPT !.err = TRUE]
    ELSE [out |-> w.out \o bytes, left |-> w.left - 1, err |-> FALSE]

RECURSIVE EscaperWriteStrTo(_, _)
\* Rfc5424LikeValueEscaper::write_str with its `?` on every sink call: the
\* first sink error ends the call and is returned.
EscaperWriteStrTo(w, s) ==
    LET index == FindSpecial(s) IN
    IF w.err THEN w
    ELSE IF index = 0
    THEN (IF s # <<>> THEN SinkWriteStr(w, s) ELSE w)
    ELSE LET w1 == IF index # 1
                   THEN SinkWriteStr(w, SubSeq(s, 1, index - 1)) ELSE w
             w2 == SinkWriteStr(w1, EscaperWriteChar(s[index]))
         IN  EscaperWriteStrTo(w2, SubSeq(s, index + 1, Len(s)))

\* SerializerImpl::emit_arguments, reached only when the value serializes.
EmitArguments(out, is_first_kv, key, val) ==
    out \o (IF is_first_kv THEN <<Space, LBracket>> ELSE <<Space>>)
        \o key \o <<Equals, DQuote>> \o EscaperWriteStr(val) \o <<DQuote>>

RECURSIVE SerializeKVs(_, _, _)
\* KV::serialize over a list of pairs, in order.  A pair whose
\* Value::serialize returns Err(slog::Error::Other) (fails) stops it before
\* anything is emitted for that pair.
SerializeKVs(kvs, out, is_first_kv) ==
    IF kvs = <<>>
    THEN [out |-> out, is_first_kv |-> is_first_kv, err |-> "none"]
    ELSE IF Head(kvs).fails
    THEN [out |-> out, is_first_kv |-> is_first_kv, err |-> "Other"]
    ELSE SerializeKVs(Tail(kvs),
                      EmitArguments(out, is_first_kv, Head(kvs).key,
                                    Head(kvs).val),
                      FALSE)

\* Mutant: the closing bracket is written even when no pair was.
SerializerFinish_Always(out, is_first_kv) == out \o <<RBracket>>

\* SerializerImpl::finish
SerializerFinish(out, is_first_kv) ==
    IF ~is_first_kv THEN out \o <<RBracket>> ELSE out

\* MsgFormat for DefaultMsgFormat: fmt
DefaultMsgFormatFmt(record) ==
    LET s1 == SerializeKVs(record.values, record.msg, TRUE) IN
    IF s1.err # "none" THEN [out |-> s1.out, err |-> s1.err]
    ELSE LET s2 == SerializeKVs(record.kv, s1.out, s1.is_first_kv) IN
         IF s2.err # "none" THEN [out |-> s2.out, err |-> s2.err]
         ELSE [out |-> SerializerFinish(s2.out, s2.is_first_kv), err |-> "none"]

\* MsgFormat for BasicMsgFormat: fmt
BasicMsgFormatFmt(record) == [out |-> record.msg, err |-> "none"]

\* CustomMsgFormat(|_, _, _| Err(slog::Error::Other)), as in tests.rs.
CustomMsgFormatFmt(record) == [out |-> <<>>, err |-> "Other"]

MsgFormatFmt(format, record) ==
    IF format = "Default" THEN DefaultMsgFormatFmt(record)
    ELSE IF format = "Basic" THEN BasicMsgFormatFmt(record)
    ELSE CustomMsgFormatFmt(record)

\* format(): appends what fmt wrote to the writer and returns fmt's error.
\* The writer is a Vec<u8>, whose io::Write never fails.
Format(format, writer, record) ==
    LET r == MsgFormatFmt(format, record) IN
    [buf |-> writer \o r.out, err |-> r.err]

\* What MsgFormat::fmt does when the Formatter writes to the given writer.
\* "Vec" is a Vec<u8>, whose io::Write never fails; "Failing" is a writer
\* whose write returns an io::Error.  write_all of an empty piece does not
\* call write, so the error arises only when something is written; fmt then
\* gets fmt::Error from the Formatter, which "?" and map_err(From::from)
\* turn into slog::Error::Fmt.
FmtInto(format, writer, record) ==
    LET r == MsgFormatFmt(format, record) IN
    IF writer = "Failing" /\ r.out # <<>>
    THEN [out |-> <<>>, err |-> "Fmt", io |-> TRUE]
    ELSE [out |-> r.out, err |-> r.err, io |-> FALSE]

\* write!(writer, "{}", displayable), line 91: io::Write::write_fmt returns
\* Ok when Display::fmt returned Ok, whatever the writer reported, the
\* writer's error when Display::fmt failed after the writer did, and an
\* error of its own when Display::fmt failed alone.
WriteFmt(display_ok, io) ==
    IF display_ok THEN "Ok" ELSE IF io THEN "Io" ELSE "Other"

\* format(), lines 72-108, for any writer: the closure given to
\* ClosureAsDisplay stores the error of fmt and returns Ok(()) (lines
\* 79-88).
FormatResult(format, writer, record) ==
    LET r == FmtInto(format, writer, record)
        outer_result == WriteFmt(TRUE, r.io)
    IN  IF outer_result # "Ok" THEN "Io"
        ELSE IF r.err # "none" THEN r.err
        ELSE "Ok"

(***************************************************************************)
(* src/src/drain.rs: pure helpers                                           *)
(***************************************************************************)
RECURSIVE Retain(_)
\* s.retain(|b| *b != 0)
Retain(s) ==
    IF s = <<>> THEN <<>>
    ELSE IF Head(s) = NUL THEN Retain(Tail(s))
    ELSE <<Head(s)>> \o Retain(Tail(s))

\* Mutant: the NUL bytes inside the text are kept.
make_cstr_lossy_KeepNul(s) == s \o <<NUL>>

\* make_cstr_lossy, lines 289-299.
make_cstr_lossy(s) == Retain(s) \o <<NUL>>

\* Mutant: Debug and Trace records are given the priority of Info.
get_priority_NoDebug(level) ==
    IF level = "Critical" THEN LOG_CRIT
    ELSE IF level = "Error" THEN LOG_ERR
    ELSE IF level = "Warning" THEN LOG_WARNING
    ELSE LOG_INFO

\* get_priority, lines 311-323.
get_priority(level) ==
    IF level = "Critical" THEN LOG_CRIT
    ELSE IF level = "Error" THEN LOG_ERR
    ELSE IF level = "Warning" THEN LOG_WARNING
    ELSE IF level \in {"Debug", "Trace"} THEN LOG_DEBUG
    ELSE LOG_INFO

\* let priority = if self.log_priority > 0 { ... } else { get_priority(..) }
LogPriority(log_priority, level) ==
    IF log_priority > 0 THEN log_priority ELSE get_priority(level)

(***************************************************************************)
(* src/src/level.rs, src/src/facility.rs, src/src/priority.rs               *)
(***************************************************************************)
SyslogLevels ==
    {"Emerg", "Alert", "Crit", "Err", "Warning", "Notice", "Info", "Debug"}

\* impl From<Level> for c_int
LevelToInt(level) ==
    CASE level = "Emerg" -> LOG_EMERG
      [] level = "Alert" -> LOG_ALERT
      [] level = "Crit" -> LOG_CRIT
      [] level = "Err" -> LOG_ERR
      [] level = "Warning" -> LOG_WARNING
      [] level = "Notice" -> LOG_NOTICE
      [] level = "Info" -> LOG_INFO
      [] level = "Debug" -> LOG_DEBUG

\* Level::from_slog
from_slog(level) ==
    CASE level = "Critical" -> "Crit"
      [] level = "Error" -> "Err"
      [] level = "Warning" -> "Warning"
      [] level \in {"Debug", "Trace"} -> "Debug"
      [] OTHER -> "Info"

\* The facilities the model uses, of those of enum Facility.
Facilities == {"Kern", "User", "Mail", "Local0", "Local1"}

\* impl From<Facility> for c_int
FacilityToInt(facility) ==
    CASE facility = "Kern" -> LOG_KERN
      [] facility = "User" -> LOG_USER
      [] facility = "Mail" -> LOG_MAIL
      [] facility = "Local0" -> LOG_LOCAL0
      [] facility = "Local1" -> LOG_LOCAL1

\* Facility::from_int, for the facilities above.
FacilityFromInt(value) ==
    CHOOSE facility \in Facilities : FacilityToInt(facility) = value

RECURSIVE BitAndNot(_, _)
\* a & !b on non-negative c_int values.
BitAndNot(a, b) ==
    IF a = 0 THEN 0
    ELSE (IF a % 2 = 1 /\ b % 2 = 0 THEN 1 ELSE 0)
            + 2 * BitAndNot(a \div 2, b \div 2)

RECURSIVE BitOr(_, _)
\* a | b on non-negative c_int values.
BitOr(a, b) ==
    IF a = 0 THEN b
    ELSE IF b = 0 THEN a
    ELSE (IF a % 2 = 1 \/ b % 2 = 1 THEN 1 ELSE 0)
            + 2 * BitOr(a \div 2, b \div 2)

\* Priority::new: PriorityKind::Normal(level, facility), the facility
\* "None" when absent.
PriorityNew(level, facility) ==
    [kind |-> "Normal", level |-> level, facility |-> facility, raw |-> 0]

\* Priority::from_raw: PriorityKind::Raw(priority)
from_raw(priority) ==
    [kind |-> "Raw", level |-> "None", facility |-> "None", raw |-> priority]

\* Priority::level
PriorityLevel(self) == IF self.kind = "Normal" THEN self.level ELSE "None"

\* Priority::facility
PriorityFacility(self) ==
    IF self.kind = "Normal" THEN self.facility ELSE "None"

\* Mutant: the facility of other replaces the one self has.
overlay_Replaces(self, other) ==
    IF self.kind = "Normal" /\ other.kind = "Normal"
                            /\ other.facility # "None"
    THEN PriorityNew(self.level, other.facility)
    ELSE self

\* Priority::overlay
overlay(self, other) ==
    IF /\ self.kind = "Normal"
       /\ self.facility = "None"
       /\ other.kind = "Normal"
       /\ other.facility # "None"
    THEN PriorityNew(self.level, other.facility)
    ELSE self

\* Priority::into_raw
into_raw(self) ==
    IF self.kind = "Normal"
    THEN BitOr(LevelToInt(self.level),
               IF self.facility = "None" THEN 0
               ELSE FacilityToInt(self.facility))
    ELSE self.raw

\* Mutant: priorities are compared by representation.
PriorityEq_Structural(self, other) == self = other

\* impl PartialEq<Priority> for Priority: eq
PriorityEq(self, other) == into_raw(self) = into_raw(other)

\* impl Hash for Priority: what hash feeds to the Hasher.
PriorityHash(self) == into_raw(self)

\* Adapter::priority, the default method (src/src/adapter.rs 129-131).
AdapterPriority(record) == PriorityNew(from_slog(record.level), "None")

\* The closure of the example of Adapter::with_priority (adapter.rs
\* 186-200): Info is raised to Notice, and the facility is Mail for a
\* record of the module my_app::mail and left out for any other module.
PriorityFnExample(record) ==
    PriorityNew(IF record.level = "Info" THEN "Notice"
                ELSE from_slog(record.level),
                IF record.module = "my_app::mail" THEN "Mail" ELSE "None")

\* Adapter::priority of the adapter of a builder: of WithPriority when
\* SyslogBuilder::priority installed the closure (adapter.rs 607-609), the
\* default method otherwise.
BuilderAdapterPriority(priority_fn, record) ==
    IF priority_fn = "Example" THEN PriorityFnExample(record)
    ELSE AdapterPriority(record)

(***************************************************************************)
(* Inputs: builders and records.                                            *)
(***************************************************************************)
IdentKinds == {"None", "Borrowed", "Owned"}

\* The builder settings, besides the ident: those from_builder reads and
\* priority_fn, the closure given to SyslogBuilder::priority ("None" when
\* it was not called), which from_builder does not read.
Configs ==
    { [facility |-> LOG_USER, option |-> 0, log_priority |-> 0,
       format |-> "Default", priority_fn |-> "None"],
      [facility |-> LOG_LOCAL0, option |-> LOG_PID, log_priority |-> 0,
       format |-> "Custom", priority_fn |-> "Example"],
      [facility |-> LOG_LOCAL1, option |-> LOG_ODELAY + LOG_PID,
       log_priority |-> LOG_ALERT, format |-> "Default",
       priority_fn |-> "None"] }

KVPair(key, val, fails) == [key |-> key, val |-> val, fails |-> fails]

\* A record together with the logger's own key-value list (values).  The
\* letters are a (97), b (98), k (107) and v (118).
Records ==
    << [level |-> "Info", module |-> "my_app::mail", msg |-> <<97, 98>>,
        values |-> <<>>, kv |-> <<>>],
       [level |-> "Warning", module |-> "other", msg |-> <<97, NUL, 98>>,
        values |-> << KVPair(<<107>>, <<118, RBracket>>, FALSE) >>,
        kv |-> << KVPair(<<98>>, <<>>, TRUE) >>],
       [level |-> "Error", module |-> "other", msg |-> <<98>>,
        values |-> <<>>,
        kv |-> << KVPair(<<107>>, <<118, NUL>>, FALSE) >>] >>

RecordIds == 1..Len(Records)

(***************************************************************************)
(* State.                                                                   *)
(***************************************************************************)
VARIABLES
    pc,                 \* position of each thread in the operation it runs
    loc,                \* local variables of that operation
    tl_buf,             \* TL_BUF, one Vec<u8> per thread
    lock_holder,        \* thread holding LAST_UNIQUE_IDENT's mutex, or 0
    poisoned,           \* whether that mutex is poisoned
    last_unique_ident,  \* the usize inside the mutex
    drains,             \* the SyslogDrain values
    heap,               \* state of each address an ident can live at
    transport,          \* what libc retains from openlog
    events,             \* calls made to the transport and releases of idents
    ops,                \* the operations started so far and their results
    call,               \* the last application of a pure function
    builder,            \* src/lib.rs: the SyslogBuilder being configured
    streamer,           \* src/lib.rs: the Streamer3164 that start returned
    logged,             \* src/lib.rs: what each Streamer3164::log call did
    sbuilder            \* src/src/builder.rs: the SyslogBuilder being configured

vars == <<pc, loc, tl_buf, lock_holder, poisoned, last_unique_ident, drains,
          heap, transport, events, ops, call, builder, streamer, logged,
          sbuilder>>

\* The variables SyslogDrain does not touch.
outside_drain == <<call, builder, streamer, logged, sbuilder>>

NoLoc == [op |-> 0, d |-> 0, cfg |-> 0, ident |-> NullPtr,
          unique_ident |-> NullPtr, r |-> 0, priority |-> 0,
          fmt_err |-> "none"]

NoDrain == [state |-> "none", unique_ident |-> NullPtr, log_priority |-> 0,
            format |-> "Default"]

\* What libc holds before the first openlog: no ident (the program name is
\* used), no option, facility LOG_USER.
TransportUnopened == [ident |-> NullPtr, option |-> 0, facility |-> LOG_USER]

\* No function has been applied yet.
NoCall == [fn |-> "none"]

\* src/lib.rs, Default for SyslogBuilder (lines 532-544): level, hostname and
\* process are None.
SyslogBuilderDefault ==
    [level |-> "None", hostname |-> "None", process |-> "None"]

\* start has not been called yet.
NoStreamer ==
    [started |-> FALSE, level_filter |-> "None", hostname |-> "None",
     process |-> "None", err |-> "none",
     env |-> [hostname |-> "none", current_exe |-> "none",
              connect |-> "none"]]

\* src/src/builder.rs, Default for SyslogBuilder (lines 26-35).
SyslogBuilderNew ==
    [adapter |-> "Default", facility |-> "User", ident |-> "None",
     option |-> 0]

Init ==
    /\ pc = [t \in Threads |-> "idle"]
    /\ loc = [t \in Threads |-> NoLoc]
    /\ tl_buf = [t \in Threads |-> <<>>]
    /\ lock_holder = 0
    /\ poisoned = FALSE
    /\ last_unique_ident = NullPtr
    /\ drains = [d \in DrainIds |-> NoDrain]
    /\ heap = [a \in Addr |-> "unallocated"]
    /\ transport = TransportUnopened
    /\ events = <<>>
    /\ ops = <<>>
    /\ call = NoCall
    /\ builder = SyslogBuilderDefault
    /\ streamer = NoStreamer
    /\ logged = <<>>
    /\ sbuilder = SyslogBuilderNew

\* A call of the history has panicked or is unwinding.
Unwound ==
    \/ \E i \in 1..Len(ops) : ops[i].ret = "panic"
    \/ \E t \in Threads : pc[t] \in {"p_unlock", "p_free"}

\* Histories with a panic are followed for MaxOps calls, the others for
\* MaxAll.
MostCalls == IF Unwound THEN MaxOps ELSE MaxAll

\* The from_builder and log calls made so far.
BuildsAndLogs ==
    Cardinality({i \in 1..Len(ops) : ops[i].kind \in {"build", "log"}})

LogPcs == {"log_sys1", "log_sys2"}

Borrowed(d) == \E t \in Threads : pc[t] \in LogPcs /\ loc[t].d = d

Finish(t, ret) ==
    /\ pc' = [pc EXCEPT ![t] = "idle"]
    /\ loc' = [loc EXCEPT ![t] = NoLoc]
    /\ ops' = [ops EXCEPT ![loc[t].op].ret = ret]

(***************************************************************************)
(* The transport: a libc that keeps the ident pointer (drain.rs 33-45),     *)
(* overwrites its settings on openlog and forgets the ident pointer on      *)
(* closelog (drain.rs 43-45).  What closelog does to the option word and    *)
(* the facility is the platform's choice: they are reset with the ident, as *)
(* the crate describes (drain.rs 192-195, lib.rs 36-42), or they stay as    *)
(* the last openlog set them.                                               *)
(***************************************************************************)
openlog(tr, ident, option, facility) ==
    [ident |-> IF ident = NullPtr THEN tr.ident ELSE ident,
     option |-> option, facility |-> facility]

\* The settings libc can hold after closelog.
closelog(tr) == {TransportUnopened, [tr EXCEPT !.ident = NullPtr]}

(***************************************************************************)
(* SyslogDrain::from_builder                                                *)
(***************************************************************************)
\* Lines 102-112: the ident pointer and, for an owned ident, its Box.
FbStart(t) ==
    /\ pc[t] = "idle"
    /\ Len(ops) < MostCalls
    /\ BuildsAndLogs < MaxOps
    /\ \E kind \in IdentKinds, cfg \in Configs :
        \E a \in (IF kind = "Owned" THEN {x \in Addr : heap[x] # "live"}
                  ELSE IF kind = "Borrowed" THEN {StaticIdent}
                  ELSE {NullPtr}) :
            /\ heap' = IF kind = "Owned" THEN [heap EXCEPT ![a] = "live"]
                       ELSE heap
            /\ loc' = [loc EXCEPT ![t] =
                        [NoLoc EXCEPT !.op = Len(ops) + 1, !.cfg = cfg,
                                      !.ident = a,
                                      !.unique_ident =
                                          IF kind = "Owned" THEN a ELSE NullPtr]]
            /\ ops' = Append(ops, [kind |-> "build", t |-> t, d |-> 0, r |-> 0,
                                   at |-> Len(events), ret |-> "pending"])
    /\ pc' = [pc EXCEPT ![t] = "fb_lock"]
    /\ UNCHANGED <<tl_buf, lock_holder, poisoned, last_unique_ident, drains,
                   transport, events>>
    /\ UNCHANGED outside_drain

\* Mutant: the mutex is taken without waiting for its holder to release it.
FbLockStep_NoWait(t) ==
    /\ lock_holder' = t
    /\ pc' = [pc EXCEPT ![t] = "fb_open"]
    /\ UNCHANGED <<loc, ops, heap, events>>

\* Line 117: LAST_UNIQUE_IDENT.lock().unwrap().  lock() takes the mutex,
\* waiting for its holder.  On a poisoned mutex unwrap then panics with the
\* guard alive; unwinding goes on as PanicUnlock and PanicFree.
FbLockStep(t) ==
    /\ lock_holder = 0
    /\ lock_holder' = t
    /\ pc' = [pc EXCEPT ![t] = IF poisoned THEN "p_unlock" ELSE "fb_open"]
    /\ UNCHANGED <<loc, ops, heap, events>>

FbLock(t) ==
    /\ pc[t] = "fb_lock"
    /\ FbLockStep(t)
    /\ UNCHANGED <<tl_buf, poisoned, last_unique_ident, drains, transport>>
    /\ UNCHANGED outside_drain

\* Line 121: openlog(ident, builder.option, builder.facility.into()).
FbOpenStep(t) ==
    /\ transport' = openlog(transport, loc[t].ident, loc[t].cfg.option,
                            loc[t].cfg.facility)
    /\ events' = Append(events,
            [op |-> "OpenLog", id |-> loc[t].op, ident |-> loc[t].ident,
             flags |-> loc[t].cfg.option, facility |-> loc[t].cfg.facility])

FbOpen(t) ==
    /\ pc[t] = "fb_open"
    /\ FbOpenStep(t)
    /\ pc' = [pc EXCEPT ![t] = "fb_update"]
    /\ UNCHANGED <<loc, tl_buf, lock_holder, poisoned, last_unique_ident,
                   drains, heap, ops>>
    /\ UNCHANGED outside_drain

\* Mutant: a null ident clears the record although libc keeps using the
\* string it was given before.
NewLastUniqueIdent_NullClears(last, ident, unique_ident) == unique_ident

\* Mutant: only an owned ident changes the record.
NewLastUniqueIdent_OwnedOnly(last, ident, unique_ident) ==
    IF unique_ident # NullPtr THEN unique_ident ELSE last

\* Lines 127-136: the value stored in the mutex after openlog.
NewLastUniqueIdent(last, ident, unique_ident) ==
    IF ident # NullPtr THEN unique_ident ELSE last

FbUpdate(t) ==
    /\ pc[t] = "fb_update"
    /\ last_unique_ident' = NewLastUniqueIdent(last_unique_ident, loc[t].ident,
                                               loc[t].unique_ident)
    /\ pc' = [pc EXCEPT ![t] = "fb_unlock"]
    /\ UNCHANGED <<loc, tl_buf, lock_holder, poisoned, drains, heap,
                   transport, events, ops>>
    /\ UNCHANGED outside_drain

\* Lines 137-143: the guard goes out of scope and the drain is returned.
FbUnlock(t) ==
    /\ pc[t] = "fb_unlock"
    /\ lock_holder' = 0
    /\ \E id \in {x \in DrainIds : drains[x].state = "none"} :
        /\ \A x \in DrainIds : drains[x].state = "none" => id <= x
        /\ drains' = [drains EXCEPT ![id] =
                        [state |-> "alive",
                         unique_ident |-> loc[t].unique_ident,
                         log_priority |-> loc[t].cfg.log_priority,
                         format |-> loc[t].cfg.format]]
        /\ pc' = [pc EXCEPT ![t] = "idle"]
        /\ loc' = [loc EXCEPT ![t] = NoLoc]
        /\ ops' = [ops EXCEPT ![loc[t].op].ret = "Ok", ![loc[t].op].d = id]
    /\ UNCHANGED <<tl_buf, poisoned, last_unique_ident, heap, transport,
                   events>>
    /\ UNCHANGED outside_drain

(***************************************************************************)
(* Drop for SyslogDrain                                                     *)
(***************************************************************************)
\* Line 151: self.unique_ident.take().  A drain without an owned ident is
\* dropped without touching the mutex or the transport.
DropStart(t) ==
    /\ pc[t] = "idle"
    /\ Len(ops) < MostCalls
    /\ \E d \in DrainIds :
        /\ drains[d].state = "alive"
        /\ ~Borrowed(d)
        /\ IF drains[d].unique_ident = NullPtr
           THEN /\ drains' = [drains EXCEPT ![d].state = "dropped"]
                /\ ops' = Append(ops, [kind |-> "drop", t |-> t, d |-> d,
                                       r |-> 0, at |-> Len(events),
                                       ret |-> "Ok"])
                /\ UNCHANGED <<pc, loc>>
           ELSE /\ drains' = [drains EXCEPT ![d].state = "dropping",
                                            ![d].unique_ident = NullPtr]
                /\ ops' = Append(ops, [kind |-> "drop", t |-> t, d |-> d,
                                       r |-> 0, at |-> Len(events),
                                       ret |-> "pending"])
                /\ loc' = [loc EXCEPT ![t] =
                            [NoLoc EXCEPT !.op = Len(ops) + 1, !.d = d,
                                !.unique_ident = drains[d].unique_ident]]
                /\ pc' = [pc EXCEPT ![t] = "d_lock"]
    /\ UNCHANGED <<tl_buf, lock_holder, poisoned, last_unique_ident, heap,
                   transport, events>>
    /\ UNCHANGED outside_drain

\* Mutant: a poisoned mutex is used like a healthy one.
DropLockStep_IgnorePoison(t) ==
    /\ lock_holder = 0
    /\ lock_holder' = t
    /\ pc' = [pc EXCEPT ![t] = "d_cmp"]
    /\ UNCHANGED <<loc, ops, drains>>

\* Lines 154-180: lock the mutex; if it is poisoned, leak the string and
\* return.
DropLockStep(t) ==
    /\ lock_holder = 0
    /\ IF poisoned
       THEN /\ Finish(t, "Ok")
            /\ drains' = [drains EXCEPT ![loc[t].d].state = "leaked"]
            /\ UNCHANGED lock_holder
       ELSE /\ lock_holder' = t
            /\ pc' = [pc EXCEPT ![t] = "d_cmp"]
            /\ UNCHANGED <<loc, ops, drains>>

DropLock(t) ==
    /\ pc[t] = "d_lock"
    /\ DropLockStep(t)
    /\ UNCHANGED <<tl_buf, poisoned, last_unique_ident, heap, transport,
                   events>>
    /\ UNCHANGED outside_drain

\* Mutant: the comparison never succeeds, so drop never calls closelog.
IsLastUniqueIdent_Never(my_ident, last) == FALSE

\* Mutant: the comparison always succeeds, so every owning drop closes.
IsLastUniqueIdent_Always(my_ident, last) == TRUE

\* Line 182: my_ident.as_ptr() as usize == *last_unique_ident
IsLastUniqueIdent(my_ident, last) == my_ident = last

\* Lines 182-199: call closelog if the string is the recorded one.
DropCmp(t) ==
    /\ pc[t] = "d_cmp"
    /\ IF IsLastUniqueIdent(loc[t].unique_ident, last_unique_ident)
       THEN /\ transport' \in closelog(transport)
            /\ events' = Append(events, [op |-> "CloseLog", id |-> loc[t].op])
            /\ pc' = [pc EXCEPT ![t] = "d_reset"]
       ELSE /\ pc' = [pc EXCEPT ![t] = "d_unlock"]
            /\ UNCHANGED <<transport, events>>
    /\ UNCHANGED <<loc, tl_buf, lock_holder, poisoned, last_unique_ident,
                   drains, heap, ops>>
    /\ UNCHANGED outside_drain

\* Mutant: the pointer stored in the mutex is left as it is after closelog.
DropReset_KeepRecord(t) ==
    /\ pc[t] = "d_reset"
    /\ pc' = [pc EXCEPT ![t] = "d_unlock"]
    /\ UNCHANGED <<loc, tl_buf, lock_holder, poisoned, drains, heap,
                   transport, events, ops, last_unique_ident>>
    /\ UNCHANGED outside_drain

\* Line 205: reset the pointer stored in the mutex.
DropReset(t) ==
    /\ pc[t] = "d_reset"
    /\ last_unique_ident' = NullPtr
    /\ pc' = [pc EXCEPT ![t] = "d_unlock"]
    /\ UNCHANGED <<loc, tl_buf, lock_holder, poisoned, drains, heap,
                   transport, events, ops>>
    /\ UNCHANGED outside_drain

\* Line 218: last_unique_ident, declared after my_ident, is dropped first.
DropUnlock(t) ==
    /\ pc[t] = "d_unlock"
    /\ lock_holder' = 0
    /\ pc' = [pc EXCEPT ![t] = "d_free"]
    /\ UNCHANGED <<loc, tl_buf, poisoned, last_unique_ident, drains, heap,
                   transport, events, ops>>
    /\ UNCHANGED outside_drain

\* Line 218: my_ident goes out of scope and the string is released.
DropFree(t) ==
    /\ pc[t] = "d_free"
    /\ heap' = [heap EXCEPT ![loc[t].unique_ident] = "freed"]
    /\ events' = Append(events, [op |-> "DropOwnedIdent", id |-> loc[t].op,
                                 a |-> loc[t].unique_ident])
    /\ drains' = [drains EXCEPT ![loc[t].d].state = "dropped"]
    /\ Finish(t, "Ok")
    /\ UNCHANGED <<tl_buf, lock_holder, poisoned, last_unique_ident,
                   transport>>
    /\ UNCHANGED outside_drain

(***************************************************************************)
(* Drain for SyslogDrain: log                                               *)
(***************************************************************************)
\* syslog(priority, message_f, message), with the settings libc applies.
SysLogEvent(id, priority, message_f, message) ==
    [op |-> "SysLog", id |-> id, priority |-> priority,
     message_f |-> message_f, message |-> message, cfg |-> transport]

\* Mutant: a formatting error is never noticed.
HasFmtErr_Never(fmt_err) == FALSE

\* Lines 239 and 262: fmt_err.is_some()
HasFmtErr(fmt_err) == fmt_err # "none"

\* Mutant: the buffer is not cleared before the bare message is written.
FormattedBuf_NoClear(format, buf, record) ==
    LET f == Format(format, buf, record) IN
    make_cstr_lossy(IF HasFmtErr(f.err) THEN f.buf \o record.msg ELSE f.buf)

\* Lines 235-246: the buffer after formatting, the fallback and
\* make_cstr_lossy.
FormattedBuf(format, buf, record) ==
    LET f == Format(format, buf, record) IN
    make_cstr_lossy(IF HasFmtErr(f.err) THEN record.msg ELSE f.buf)

\* Lines 227-246: priority, formatting into TL_BUF, fallback to the bare
\* message, conversion to a C string.
LogFmtBody(t) ==
    /\ pc[t] = "idle"
    /\ Len(ops) < MostCalls
    /\ BuildsAndLogs < MaxOps
    /\ \E d \in DrainIds, r \in RecordIds :
        /\ drains[d].state = "alive"
        /\ LET record == Records[r]
               f == Format(drains[d].format, tl_buf[t], record) IN
           /\ loc' = [loc EXCEPT ![t] =
                        [NoLoc EXCEPT !.op = Len(ops) + 1, !.d = d, !.r = r,
                            !.priority = LogPriority(drains[d].log_priority,
                                                     record.level),
                            !.fmt_err = f.err]]
           /\ tl_buf' = [tl_buf EXCEPT ![t] =
                            FormattedBuf(drains[d].format, tl_buf[t], record)]
        /\ ops' = Append(ops, [kind |-> "log", t |-> t, d |-> d, r |-> r,
                               at |-> Len(events), ret |-> "pending"])
    /\ pc' = [pc EXCEPT ![t] = "log_sys1"]
    /\ UNCHANGED <<poisoned, last_unique_ident, drains, heap, transport,
                   events>>
    /\ UNCHANGED outside_drain

\* log never touches LAST_UNIQUE_IDENT's mutex.
LogFmt(t) ==
    /\ LogFmtBody(t)
    /\ UNCHANGED lock_holder

\* Lines 249-266: submit the message, clear the buffer and, after a
\* formatting error, put the error's text in the buffer.
LogSys1(t) ==
    /\ pc[t] = "log_sys1"
    /\ events' = Append(events,
            SysLogEvent(loc[t].op, loc[t].priority, MessageF, tl_buf[t]))
    /\ IF HasFmtErr(loc[t].fmt_err)
       THEN /\ tl_buf' = [tl_buf EXCEPT ![t] =
                            make_cstr_lossy(ErrText(loc[t].fmt_err))]
            /\ pc' = [pc EXCEPT ![t] = "log_sys2"]
            /\ UNCHANGED <<loc, ops>>
       ELSE /\ tl_buf' = [tl_buf EXCEPT ![t] = <<>>]
            /\ Finish(t, "Ok")
    /\ UNCHANGED <<lock_holder, poisoned, last_unique_ident, drains, heap,
                   transport>>
    /\ UNCHANGED outside_drain

\* Lines 268-282: submit the formatting error at LOG_ERR and clear the
\* buffer.
LogSys2(t) ==
    /\ pc[t] = "log_sys2"
    /\ events' = Append(events,
            SysLogEvent(loc[t].op, LOG_ERR, ErrorMessageF, tl_buf[t]))
    /\ tl_buf' = [tl_buf EXCEPT ![t] = <<>>]
    /\ Finish(t, "Ok")
    /\ UNCHANGED <<lock_holder, poisoned, last_unique_ident, drains, heap,
                   transport>>
    /\ UNCHANGED outside_drain

(***************************************************************************)
(* A panic inside the critical section of from_builder, the failure the    *)
(* comment in drop describes: openlog may or may not have taken effect.    *)
(* The unwinding steps are also those of the panic of unwrap (line 117) on  *)
(* a mutex that is already poisoned.                                        *)
(* Unwinding drops the guard, which poisons the mutex, and then the local   *)
(* unique_ident.                                                            *)
(***************************************************************************)
Panic(t) ==
    /\ pc[t] = "fb_open"
    /\ Len(ops) <= MaxOps
    /\ \E called \in BOOLEAN :
        IF called
        THEN /\ transport' = openlog(transport, loc[t].ident,
                                     loc[t].cfg.option, loc[t].cfg.facility)
             /\ events' = Append(events,
                    [op |-> "OpenLog", id |-> loc[t].op,
                     ident |-> loc[t].ident, flags |-> loc[t].cfg.option,
                     facility |-> loc[t].cfg.facility])
        ELSE UNCHANGED <<transport, events>>
    /\ pc' = [pc EXCEPT ![t] = "p_unlock"]
    /\ UNCHANGED <<loc, tl_buf, lock_holder, poisoned, last_unique_ident,
                   drains, heap, ops>>
    /\ UNCHANGED outside_drain

\* Unwinding drops the MutexGuard first (declared last, line 117): the mutex
\* is released and poisoned.
PanicUnlock(t) ==
    /\ pc[t] = "p_unlock"
    /\ lock_holder' = 0
    /\ poisoned' = TRUE
    /\ pc' = [pc EXCEPT ![t] = "p_free"]
    /\ UNCHANGED <<loc, tl_buf, last_unique_ident, drains, heap, transport,
                   events, ops>>
    /\ UNCHANGED outside_drain

\* Unwinding then drops unique_ident (lines 101-112), with the mutex already
\* released: an owned ident string is freed.
PanicFree(t) ==
    /\ pc[t] = "p_free"
    /\ IF loc[t].unique_ident # NullPtr
       THEN /\ heap' = [heap EXCEPT ![loc[t].unique_ident] = "freed"]
            /\ events' = Append(events, [op |-> "DropOwnedIdent",
                                         id |-> loc[t].op,
                                         a |-> loc[t].unique_ident])
       ELSE UNCHANGED <<heap, events>>
    /\ Finish(t, "panic")
    /\ UNCHANGED <<tl_buf, lock_holder, poisoned, last_unique_ident, drains,
                   transport>>
    /\ UNCHANGED outside_drain

(***************************************************************************)
(* Specifications.                                                          *)
(***************************************************************************)
Next ==
    \E t \in Threads :
        \/ FbStart(t)
        \/ FbLock(t)
        \/ FbOpen(t)
        \/ FbUpdate(t)
        \/ FbUnlock(t)
        \/ DropStart(t)
        \/ DropLock(t)
        \/ DropCmp(t)
        \/ DropReset(t)
        \/ DropUnlock(t)
        \/ DropFree(t)
        \/ LogFmt(t)
        \/ LogSys1(t)
        \/ LogSys2(t)

Spec == Init /\ [][Next]_vars

\* The same program when a panic can strike inside from_builder's
\* critical section.
NextPoison ==
    \/ Next
    \/ \E t \in Threads :
        \/ Panic(t)
        \/ PanicUnlock(t)
        \/ PanicFree(t)

SpecPoison == Init /\ [][NextPoison]_vars

(***************************************************************************)
(* A panic while log formats the record (drain.rs line 235): MsgFormat::fmt *)
(* runs the caller's code (the Display of the message, a Value's serialize  *)
(* and the Display of its value, a CustomMsgFormat closure), which can      *)
(* panic after fmt has written to TL_BUF.  Every write of fmt goes straight *)
(* into TL_BUF, so the buffer keeps what was written before the panic.      *)
(* The same holds for the message written after a formatting error (lines  *)
(* 240-241).  Unwinding releases the RefMut of TL_BUF and nothing else: the *)
(* clears that follow in log (lines 259 and 278) are not reached.           *)
(***************************************************************************)
\* What a Display that panics can have written of s before it does.
Prefixes(s) == {SubSeq(s, 1, n) : n \in 0..Len(s)}

RECURSIVE PairPanicPoints(_, _, _)
\* What fmt has written, after out, when code called while the pairs are
\* serialized panics: in Value::serialize before the pair is emitted, in the
\* Display of the value (format.rs, emit_arguments, the escaped write), or
\* after the pair was emitted.  A pair whose serialize fails is the last
\* code called.
PairPanicPoints(kvs, out, is_first_kv) ==
    IF kvs = <<>> \/ Head(kvs).fails
    THEN {out}
    ELSE LET kv == Head(kvs)
             opened == out
                \o (IF is_first_kv THEN <<Space, LBracket>> ELSE <<Space>>)
                \o kv.key \o <<Equals, DQuote>>
         IN  {out}
                \cup {opened \o EscaperWriteStr(v) : v \in Prefixes(kv.val)}
                \cup PairPanicPoints(Tail(kvs),
                        EmitArguments(out, is_first_kv, kv.key, kv.val),
                        FALSE)

\* What a CustomMsgFormat closure that panics has written before it does:
\* nothing, or the letter x (120).
CustomWrites == {<<>>, <<120>>}

\* What MsgFormat::fmt has written when the code it calls panics.  finish()
\* writes the closing bracket after the last call into such code.
UnwindPoints(format, record) ==
    IF format = "Default"
    THEN Prefixes(record.msg)
            \cup PairPanicPoints(record.values \o record.kv, record.msg, TRUE)
    ELSE IF format = "Basic" THEN Prefixes(record.msg)
    ELSE CustomWrites

\* TL_BUF when the code log calls panics: in MsgFormat::fmt (line 235),
\* after what the buffer held, or, when fmt returned an error, in the
\* Display of the message written into the cleared buffer (lines 240-241).
\* The text of the error written at line 263 is the crate's own.
UnwindBuffers(format, buf, record) ==
    {buf \o written : written \in UnwindPoints(format, record)}
        \cup (IF HasFmtErr(Format(format, buf, record).err)
              THEN Prefixes(record.msg)
              ELSE {})

LogUnwind(t) ==
    /\ pc[t] = "idle"
    /\ Len(ops) < MaxOps
    /\ BuildsAndLogs < MaxOps
    /\ \E d \in DrainIds, r \in RecordIds :
        /\ drains[d].state = "alive"
        /\ \E left \in UnwindBuffers(drains[d].format, tl_buf[t], Records[r]) :
            tl_buf' = [tl_buf EXCEPT ![t] = left]
        /\ ops' = Append(ops, [kind |-> "log", t |-> t, d |-> d, r |-> r,
                               at |-> Len(events), ret |-> "panic"])
    /\ UNCHANGED <<pc, loc, lock_holder, poisoned, last_unique_ident, drains,
                   heap, transport, events>>
    /\ UNCHANGED outside_drain

\* The same program when the code that log calls to format can panic.
NextUnwind == Next \/ \E t \in Threads : LogUnwind(t)

SpecUnwind == Init /\ [][NextUnwind]_vars

(***************************************************************************)
(* src/lib.rs: SyslogBuilder and Streamer3164, the drain that writes to a   *)
(* syslog::Logger.  The transport is taken to open and to accept every      *)
(* packet.                                                                  *)
(***************************************************************************)
\* The variables of SyslogDrain, which the other components leave alone.
drain_vars == <<pc, loc, tl_buf, lock_holder, poisoned, last_unique_ident,
                drains, heap, transport, events, ops>>

SlogLevels == {"Critical", "Error", "Warning", "Info", "Debug", "Trace"}

\* slog::Level::as_usize
LevelAsUsize(level) ==
    CASE level = "Critical" -> 1
      [] level = "Error" -> 2
      [] level = "Warning" -> 3
      [] level = "Info" -> 4
      [] level = "Debug" -> 5
      [] level = "Trace" -> 6

\* info.level().is_at_least(level_filter), line 126.
is_at_least(level, other) == LevelAsUsize(level) <= LevelAsUsize(other)

\* Lines 164-170: the syslog::Logger method log calls for each level.
Severity3164(level) ==
    CASE level = "Critical" -> "crit"
      [] level = "Error" -> "err"
      [] level = "Warning" -> "warning"
      [] level = "Info" -> "info"
      [] level \in {"Debug", "Trace"} -> "debug"

\* The records given to Streamer3164::log: one of each level, and two with
\* an attribute that fails to serialize.
Records3164 ==
    {[level |-> l, msg |-> <<97, 98>>, values |-> <<>>, kv |-> <<>>] :
        l \in SlogLevels}
    \cup {[level |-> l, msg |-> <<97>>, values |-> <<>>,
           kv |-> << KVPair(<<98>>, <<>>, TRUE) >>] : l \in {"Info", "Error"}}

\* SyslogBuilder::level, lines 565-570.
BuilderLevel(lvl) ==
    /\ streamer = NoStreamer
    /\ builder' = [builder EXCEPT !.level = lvl]
    /\ UNCHANGED <<drain_vars, sbuilder, call, streamer, logged>>

\* SyslogBuilder::hostname, lines 573-576.
BuilderHostname ==
    /\ streamer = NoStreamer
    /\ builder' = [builder EXCEPT !.hostname = "given"]
    /\ UNCHANGED <<drain_vars, sbuilder, call, streamer, logged>>

\* SyslogBuilder::process, lines 585-588.
BuilderProcess ==
    /\ streamer = NoStreamer
    /\ builder' = [builder EXCEPT !.process = "given"]
    /\ UNCHANGED <<drain_vars, sbuilder, call, streamer, logged>>

\* What start_single_threaded finds outside the program: the result of
\* hostname::get(), of env::current_exe() (an error, a path without a file
\* name, or a path with one) and of opening the transport.
Envs ==
    [hostname : {"Ok", "Err"},
     current_exe : {"Ok", "Err", "NoFileName"},
     connect : {"Ok", "Err"}]

\* SyslogBuilder::start_single_threaded, lines 641-677, which start (line
\* 632) wraps in a Mutex.  A hostname that cannot be detected becomes None
\* (lines 644-650); a process name that cannot be detected returns an
\* Initialization error through "?" (lines 652-664), before the transport
\* is opened (lines 667-675).  Streamer3164::new(log) sets level_filter to
\* None (lines 91-97) and with_msg_format copies it (lines 104-110);
\* self.level is not read.
start_single_threaded(self, env) ==
    LET hostname == IF self.hostname # "None" THEN self.hostname
                    ELSE IF env.hostname = "Ok" THEN "detected"
                    ELSE "None"
    IN  IF self.process = "None" /\ env.current_exe # "Ok"
        THEN [NoStreamer EXCEPT !.err = "process", !.env = env]
        ELSE IF env.connect = "Err"
        THEN [NoStreamer EXCEPT !.err = "connect", !.env = env]
        ELSE [started |-> TRUE, level_filter |-> "None",
              hostname |-> hostname,
              process |-> IF self.process # "None" THEN self.process
                          ELSE "detected",
              err |-> "none", env |-> env]

Start ==
    /\ streamer = NoStreamer
    /\ \E env \in Envs : streamer' = start_single_threaded(builder, env)
    /\ UNCHANGED <<drain_vars, sbuilder, call, builder, logged>>

\* What logger.crit/err/warning/info/debug(msg) of the syslog crate returns
\* (lines 163-170).  It writes msg into the packet with write!, so it fails
\* when msg's Display fails or when the backend's write fails.  A failed
\* write is reported with the io::Error as its source.  Which source the
\* crate reports when only Display failed is the crate's choice: the bare
\* fmt::Error or an io::Error made for it.
LoggerResults(display_ok, write) ==
    IF write = "Err" THEN {[ok |-> FALSE, source |-> "io"]}
    ELSE IF ~display_ok
    THEN {[ok |-> FALSE, source |-> "fmt"], [ok |-> FALSE, source |-> "io"]}
    ELSE {[ok |-> TRUE, source |-> "none"]}

\* has_significant_error, lines 182-192.
has_significant_error(result) ==
    ~result.ok /\ result.source # "none" /\ result.source # "fmt"

\* Mutant: the result of the logger is dropped.
LogReturn_IgnoreLogger(log_result, msg_format_result) ==
    IF msg_format_result # "none" THEN "Msg" ELSE "Ok"

\* Lines 194-213: which of the two results log returns.  msg_format_result
\* is the error BasicMsgFormat3164 returned, here always a serialization
\* error (slog::Error::Other), which becomes ErrorKind::Msg.
LogReturn(log_result, msg_format_result) ==
    IF has_significant_error(log_result) THEN "Logger"
    ELSE IF msg_format_result # "none" THEN "Msg"
    ELSE IF log_result.ok THEN "Ok" ELSE "Logger"

\* Drain for Streamer3164: log, lines 124-217.  BasicMsgFormat3164 (lines
\* 387-428) is the code of DefaultMsgFormat.  write is what the backend's
\* write does with the packet.
StreamerLog(record) ==
    /\ streamer.started
    /\ Len(logged) < MaxLogs
    /\ IF /\ streamer.level_filter # "None"
          /\ ~is_at_least(record.level, streamer.level_filter)
       THEN logged' = Append(logged,
                [level |-> record.level, formatted |-> FALSE,
                 submitted |-> FALSE, severity |-> "none", message |-> <<>>,
                 write |-> "none", fmt_err |-> "none",
                 log_result |-> [ok |-> TRUE, source |-> "none"],
                 ret |-> "Ok"])
       ELSE \E write \in {"Ok", "Err"} :
            LET f == DefaultMsgFormatFmt(record) IN
            \E log_result \in LoggerResults(f.err = "none", write) :
            logged' = Append(logged,
                [level |-> record.level, formatted |-> TRUE,
                 submitted |-> TRUE, severity |-> Severity3164(record.level),
                 message |-> f.out, write |-> write, fmt_err |-> f.err,
                 log_result |-> log_result,
                 ret |-> LogReturn(log_result, f.err)])
    /\ UNCHANGED <<drain_vars, sbuilder, call, builder, streamer>>

Next3164 ==
    \/ \E lvl \in SlogLevels : BuilderLevel(lvl)
    \/ BuilderHostname
    \/ BuilderProcess
    \/ Start
    \/ \E record \in Records3164 : StreamerLog(record)

Spec3164 == Init /\ [][Next3164]_vars

(***************************************************************************)
(* src/src/builder.rs: SyslogBuilder.  Each setter takes the builder by     *)
(* value and returns it; call records the setter applied last, with the     *)
(* builder before and after it.                                             *)
(***************************************************************************)
Adapters == {"Default", "Basic"}

\* src/src/adapter.rs, Adapter::with_fmt (lines 91-100): WithFormat around
\* the adapter.
with_fmt(inner) == "WithFormat(" \o inner \o ")"

\* src/src/adapter.rs, Adapter::with_priority (lines 211-220): WithPriority
\* around the adapter.
with_priority(inner) == "WithPriority(" \o inner \o ")"

\* The adapters with at most n wrappers.
RECURSIVE Wrapped(_)
Wrapped(n) ==
    IF n = 0 THEN Adapters
    ELSE LET w == Wrapped(n - 1) IN
         w \cup {with_fmt(a) : a \in w} \cup {with_priority(a) : a \in w}

\* SyslogBuilder::facility, lines 50-53.
facility(self, f) == [self EXCEPT !.facility = f]

\* SyslogBuilder::ident, lines 143-146, and ident_str, lines 101-106.
ident(self, i) == [self EXCEPT !.ident = i]

\* SyslogBuilder::log_pid, lines 155-158.
log_pid(self) == [self EXCEPT !.option = BitOr(self.option, LOG_PID)]

\* Mutant: LOG_ODELAY is left as it was.
log_ndelay_OrOnly(self) ==
    [self EXCEPT !.option = BitOr(self.option, LOG_NDELAY)]

\* SyslogBuilder::log_ndelay, lines 171-174.
log_ndelay(self) ==
    [self EXCEPT !.option =
        BitOr(BitAndNot(self.option, LOG_ODELAY), LOG_NDELAY)]

\* SyslogBuilder::log_odelay, lines 187-190.
log_odelay(self) ==
    [self EXCEPT !.option =
        BitOr(BitAndNot(self.option, LOG_NDELAY), LOG_ODELAY)]

\* SyslogBuilder::log_nowait, lines 207-210.
log_nowait(self) == [self EXCEPT !.option = BitOr(self.option, LOG_NOWAIT)]

\* SyslogBuilder::log_perror, lines 236-239.
log_perror(self) == [self EXCEPT !.option = BitOr(self.option, LOG_PERROR)]

\* SyslogBuilder::map_adapter, lines 295-305, with f given as the adapter it
\* returns.
map_adapter(self, f_adapter) ==
    [adapter |-> f_adapter, facility |-> self.facility, ident |-> self.ident,
     option |-> self.option]

\* SyslogBuilder::adapter, lines 263-265.
adapter(self, a) == map_adapter(self, a)

\* SyslogBuilder::format, lines 313-316.
builder_format(self) == map_adapter(self, with_fmt(self.adapter))

\* SyslogBuilder::priority, lines 326-329.
builder_priority(self) == map_adapter(self, with_priority(self.adapter))

\* What every setter step records and leaves alone.
Applied(fn) ==
    /\ call' = [fn |-> fn, self |-> sbuilder, ret |-> sbuilder']
    /\ UNCHANGED <<drain_vars, builder, streamer, logged>>

SetFacility ==
    /\ \E f \in Facilities : sbuilder' = facility(sbuilder, f)
    /\ Applied("facility")

SetIdent ==
    /\ \E i \in IdentKinds \ {"None"} : sbuilder' = ident(sbuilder, i)
    /\ Applied("ident")

SetLogPid ==
    /\ sbuilder' = log_pid(sbuilder)
    /\ Applied("log_pid")

SetLogNdelay ==
    /\ sbuilder' = log_ndelay(sbuilder)
    /\ Applied("log_ndelay")

SetLogOdelay ==
    /\ sbuilder' = log_odelay(sbuilder)
    /\ Applied("log_odelay")

SetLogNowait ==
    /\ sbuilder' = log_nowait(sbuilder)
    /\ Applied("log_nowait")

SetLogPerror ==
    /\ sbuilder' = log_perror(sbuilder)
    /\ Applied("log_perror")

SetAdapter ==
    /\ \E a \in Adapters : sbuilder' = adapter(sbuilder, a)
    /\ Applied("adapter")

SetFormat ==
    /\ sbuilder.adapter \in Wrapped(MaxWrap - 1)
    /\ sbuilder' = builder_format(sbuilder)
    /\ Applied("format")

SetPriority ==
    /\ sbuilder.adapter \in Wrapped(MaxWrap - 1)
    /\ sbuilder' = builder_priority(sbuilder)
    /\ Applied("priority")

NextBuilder ==
    \/ SetFacility
    \/ SetIdent
    \/ SetLogPid
    \/ SetLogNdelay
    \/ SetLogOdelay
    \/ SetLogNowait
    \/ SetLogPerror
    \/ SetAdapter
    \/ SetFormat
    \/ SetPriority

SpecBuilder == Init /\ [][NextBuilder]_vars

(***************************************************************************)
(* The pure functions of priority.rs and format.rs (adapter.rs holds the    *)
(* same escaper, format and default fmt), each applied to inputs drawn from *)
(* bounded sets.  call records the last application.                        *)
(***************************************************************************)
Priorities ==
    {PriorityNew(l, f) : l \in SyslogLevels, f \in Facilities \cup {"None"}}
        \cup {from_raw(n) : n \in 0..MaxRaw}

\* Bytes of the strings given to the escaper: the three delimiters, an
\* opening bracket, a letter, a control character and a byte of a non-ASCII
\* sequence.
Alphabet == {Backslash, DQuote, RBracket, LBracket, 97, 10, 195}

Strings == UNION {[1..n -> Alphabet] : n \in 0..MaxLen}

\* Key-value pairs: a plain one, one whose key and value hold delimiters,
\* and one whose value fails to serialize.
KVChoices ==
    { KVPair(<<107>>, <<118>>, FALSE),
      KVPair(<<107, RBracket>>, <<DQuote, 118>>, FALSE),
      KVPair(<<98>>, <<>>, TRUE) }

KVLists == UNION {[1..n -> KVChoices] : n \in 0..MaxKVs}

FmtRecords ==
    {[level |-> "Info", msg |-> m, values |-> vs, kv |-> kv] :
        m \in {<<>>, <<97>>}, vs \in KVLists, kv \in KVLists}

Formats == {"Default", "Basic", "Custom"}

Writers == {"Vec", "Failing"}

\* How many write_str calls the escaper's sink accepts before it fails; no
\* string of MaxLen bytes needs more than MaxLen of them.
SinkCalls == 0..MaxLen

(***************************************************************************)
(* FromStr for Facility (facility.rs 458-495) and for Level (level.rs       *)
(* 147-165).  A string is a sequence of one-character strings.              *)
(***************************************************************************)
UpperCase == <<"A", "B", "C", "D", "E", "F", "G", "H", "I", "J", "K", "L", "M",
               "N", "O", "P", "Q", "R", "S", "T", "U", "V", "W", "X", "Y", "Z">>

LowerCase == <<"a", "b", "c", "d", "e", "f", "g", "h", "i", "j", "k", "l", "m",
               "n", "o", "p", "q", "r", "s", "t", "u", "v", "w", "x", "y", "z">>

\* u8::to_ascii_lowercase on one character.
CharToLower(c) ==
    IF \E i \in 1..26 : UpperCase[i] = c
    THEN LowerCase[CHOOSE i \in 1..26 : UpperCase[i] = c]
    ELSE c

CharToUpper(c) ==
    IF \E i \in 1..26 : LowerCase[i] = c
    THEN UpperCase[CHOOSE i \in 1..26 : LowerCase[i] = c]
    ELSE c

\* str::to_ascii_lowercase
to_ascii_lowercase(s) == [i \in 1..Len(s) |-> CharToLower(s[i])]

\* The variants of enum Facility that from_str and name know.
FacilityVariants ==
    {"Auth", "AuthPriv", "Cron", "Daemon", "Ftp", "Kern", "Install",
     "Launchd", "Local0", "Local1", "Local2", "Local3", "Local4", "Local5",
     "Local6", "Local7", "Lpr", "Mail", "Ntp", "NetInfo", "News", "Ras",
     "RemoteAuth", "Security", "Syslog", "User", "Uucp"}

\* Facility::name, facility.rs 193-225.
FacilityName(f) ==
    CASE f = "Auth" -> <<"a", "u", "t", "h">>
      [] f = "AuthPriv" -> <<"a", "u", "t", "h", "p", "r", "i", "v">>
      [] f = "Cron" -> <<"c", "r", "o", "n">>
      [] f = "Daemon" -> <<"d", "a", "e", "m", "o", "n">>
      [] f = "Ftp" -> <<"f", "t", "p">>
      [] f = "Kern" -> <<"k", "e", "r", "n">>
      [] f = "Install" -> <<"i", "n", "s", "t", "a", "l", "l">>
      [] f = "Launchd" -> <<"l", "a", "u", "n", "c", "h", "d">>
      [] f = "Local0" -> <<"l", "o", "c", "a", "l", "0">>
      [] f = "Local1" -> <<"l", "o", "c", "a", "l", "1">>
      [] f = "Local2" -> <<"l", "o", "c", "a", "l", "2">>
      [] f = "Local3" -> <<"l", "o", "c", "a", "l", "3">>
      [] f = "Local4" -> <<"l", "o", "c", "a", "l", "4">>
      [] f = "Local5" -> <<"l", "o", "c", "a", "l", "5">>
      [] f = "Local6" -> <<"l", "o", "c", "a", "l", "6">>
      [] f = "Local7" -> <<"l", "o", "c", "a", "l", "7">>
      [] f = "Lpr" -> <<"l", "p", "r">>
      [] f = "Mail" -> <<"m", "a", "i", "l">>
      [] f = "Ntp" -> <<"n", "t", "p">>
      [] f = "NetInfo" -> <<"n", "e", "t", "i", "n", "f", "o">>
      [] f = "News" -> <<"n", "e", "w", "s">>
      [] f = "Ras" -> <<"r", "a", "s">>
      [] f = "RemoteAuth" ->
            <<"r", "e", "m", "o", "t", "e", "a", "u", "t", "h">>
      [] f = "Security" -> <<"s", "e", "c", "u", "r", "i", "t", "y">>
      [] f = "Syslog" -> <<"s", "y", "s", "l", "o", "g">>
      [] f = "User" -> <<"u", "s", "e", "r">>
      [] f = "Uucp" -> <<"u", "u", "c", "p">>

\* Level::name, level.rs 53-64.
LevelName(l) ==
    CASE l = "Emerg" -> <<"e", "m", "e", "r", "g">>
      [] l = "Alert" -> <<"a", "l", "e", "r", "t">>
      [] l = "Crit" -> <<"c", "r", "i", "t">>
      [] l = "Err" -> <<"e", "r", "r">>
      [] l = "Warning" -> <<"w", "a", "r", "n", "i", "n", "g">>
      [] l = "Notice" -> <<"n", "o", "t", "i", "c", "e">>
      [] l = "Info" -> <<"i", "n", "f", "o">>
      [] l = "Debug" -> <<"d", "e", "b", "u", "g">>

\* The second names from_str accepts for a level: panic, error, warn.
LevelAlias(l) ==
    CASE l = "Emerg" -> <<"p", "a", "n", "i", "c">>
      [] l = "Err" -> <<"e", "r", "r", "o", "r">>
      [] l = "Warning" -> <<"w", "a", "r", "n">>
      [] OTHER -> LevelName(l)

\* <Facility as FromStr>::from_str: the match is made on the lowercased
\* string, and the lowercased string is what the error keeps as its name.
FacilityFromStr(input) ==
    LET s == to_ascii_lowercase(input) IN
    IF \E f \in FacilityVariants : FacilityName(f) = s
    THEN [ok |-> TRUE,
          value |-> CHOOSE f \in FacilityVariants : FacilityName(f) = s,
          name |-> <<>>]
    ELSE [ok |-> FALSE, value |-> "None", name |-> s]

\* <Level as FromStr>::from_str
LevelFromStr(input) ==
    LET s == to_ascii_lowercase(input) IN
    IF \E l \in SyslogLevels : s \in {LevelName(l), LevelAlias(l)}
    THEN [ok |-> TRUE,
          value |-> CHOOSE l \in SyslogLevels :
                        s \in {LevelName(l), LevelAlias(l)},
          name |-> <<>>]
    ELSE [ok |-> FALSE, value |-> "None", name |-> s]

\* The names given to from_str: every name it knows and some it does not,
\* each in lower case, in upper case and capitalised.
NamesLower ==
    {FacilityName(f) : f \in FacilityVariants}
        \cup {LevelName(l) : l \in SyslogLevels}
        \cup {LevelAlias(l) : l \in SyslogLevels}
        \cup { <<>>, <<"f", "o", "o", "b", "a", "r">>,
               <<"k", "e", "r", "n", " ">>, <<"l", "o", "c", "a", "l", "9">>,
               <<"e", "r", "r", "o">> }

NameInputs ==
    NamesLower
        \cup {[i \in 1..Len(s) |-> CharToUpper(s[i])] : s \in NamesLower}
        \cup {[i \in 1..Len(s) |-> IF i = 1 THEN CharToUpper(s[i]) ELSE s[i]] :
                s \in NamesLower}

\* Each behaviour applies one of the functions to one input drawn from the
\* sets above; the functions keep no state between calls.
CallOverlay ==
    /\ call = NoCall
    /\ \E p, q \in Priorities :
        call' = [fn |-> "overlay", self |-> p, other |-> q,
                 ret |-> overlay(p, q)]
    /\ UNCHANGED <<drain_vars, sbuilder, builder, streamer, logged>>

CallEq ==
    /\ call = NoCall
    /\ \E p, q \in Priorities :
        call' = [fn |-> "eq", self |-> p, other |-> q,
                 ret |-> PriorityEq(p, q),
                 hash_self |-> PriorityHash(p),
                 hash_other |-> PriorityHash(q)]
    /\ UNCHANGED <<drain_vars, sbuilder, builder, streamer, logged>>

\* Rfc5424LikeValueEscaper(String::new()).write_str(s), as in
\* test_rfc_5424_like_value_escaper.
CallWriteStr ==
    /\ call = NoCall
    /\ \E s \in Strings, left \in SinkCalls :
        LET w == EscaperWriteStrTo([out |-> <<>>, left |-> left,
                                    err |-> FALSE], s)
        IN  call' = [fn |-> "write_str", s |-> s, left |-> left,
                     ret |-> w.out, err |-> w.err]
    /\ UNCHANGED <<drain_vars, sbuilder, builder, streamer, logged>>

CallFmt ==
    /\ call = NoCall
    /\ \E record \in FmtRecords :
        call' = [fn |-> "fmt", record |-> record,
                 ret |-> DefaultMsgFormatFmt(record)]
    /\ UNCHANGED <<drain_vars, sbuilder, builder, streamer, logged>>

CallFormat ==
    /\ call = NoCall
    /\ \E format \in Formats, writer \in Writers, r \in RecordIds :
        call' = [fn |-> "format", format |-> format, writer |-> writer,
                 record |-> Records[r],
                 fmt |-> FmtInto(format, writer, Records[r]),
                 ret |-> FormatResult(format, writer, Records[r])]
    /\ UNCHANGED <<drain_vars, sbuilder, builder, streamer, logged>>

(***************************************************************************)
(* src/src/config.rs: SyslogConfig::into_builder and ConfiguredAdapter.     *)
(***************************************************************************)
\* Some(true), Some(false) and None are "true", "false" and "None".
SyslogConfigs ==
    [format : {"Default", "Basic"}, facility : {"User", "Local0"},
     ident : {"None", "Owned"}, log_pid : BOOLEAN,
     log_delay : {"None", "true", "false"}, log_perror : BOOLEAN]

\* SyslogConfig::into_builder, lines 112-139.  The adapter is the
\* ConfiguredAdapter made from the format and the priorities; the
\* priorities play no part in the builder's other fields.
into_builder(self) ==
    LET b0 == adapter(facility(SyslogBuilderNew, self.facility),
                      [format |-> self.format])
        b1 == IF self.ident # "None" THEN ident(b0, self.ident) ELSE b0
        b2 == IF self.log_pid THEN log_pid(b1) ELSE b1
        b3 == IF self.log_delay = "true" THEN log_odelay(b2)
              ELSE IF self.log_delay = "false" THEN log_ndelay(b2)
              ELSE b2
    IN  IF self.log_perror THEN log_perror(b3) ELSE b3

\* The Option<Priority> values given to a PriorityConfig: None, a level
\* alone, a level with a facility, and a raw value (LOG_USER | LOG_ALERT).
NoPriority == [kind |-> "None", level |-> "None", facility |-> "None",
               raw |-> 0]

PriorityChoices ==
    {NoPriority, PriorityNew("Err", "None"), PriorityNew("Notice", "Mail"),
     from_raw(LOG_USER + LOG_ALERT)}

PriorityConfigs ==
    [{"all", "trace", "debug", "info", "warning", "error", "critical"}
        -> PriorityChoices]

\* Mutant: the entry for all is taken whenever it is set.
ConfiguredPriority_AllFirst(self, record) ==
    IF self["all"] # NoPriority THEN self["all"]
    ELSE AdapterPriority(record)

\* Adapter for ConfiguredAdapter: priority, lines 303-319.
ConfiguredPriority(self, record) ==
    LET priority ==
            CASE record.level = "Critical" -> self["critical"]
              [] record.level = "Error" -> self["error"]
              [] record.level = "Warning" -> self["warning"]
              [] record.level = "Debug" -> self["debug"]
              [] record.level = "Trace" -> self["trace"]
              [] OTHER -> self["info"]
        priority_all == self["all"]
    IN  IF priority # NoPriority /\ priority_all # NoPriority
        THEN overlay(priority, priority_all)
        ELSE IF priority_all # NoPriority THEN priority_all
        ELSE IF priority # NoPriority THEN priority
        ELSE AdapterPriority(record)

CallIntoBuilder ==
    /\ call = NoCall
    /\ \E config \in SyslogConfigs :
        call' = [fn |-> "into_builder", self |-> config,
                 ret |-> into_builder(config)]
    /\ UNCHANGED <<drain_vars, sbuilder, builder, streamer, logged>>

CallConfiguredPriority ==
    /\ call = NoCall
    /\ \E config \in PriorityConfigs, level \in SlogLevels :
        call' = [fn |-> "priority", self |-> config, level |-> level,
                 ret |-> ConfiguredPriority(config, [level |-> level])]
    /\ UNCHANGED <<drain_vars, sbuilder, builder, streamer, logged>>

\* Line 232 of drain.rs, for a drain whose log_priority field holds the
\* priority it was configured with.
CallLogPriority ==
    /\ call = NoCall
    /\ \E log_priority \in 0..MaxRaw, level \in SlogLevels :
        call' = [fn |-> "log_priority", log_priority |-> log_priority,
                 level |-> level, ret |-> LogPriority(log_priority, level)]
    /\ UNCHANGED <<drain_vars, sbuilder, builder, streamer, logged>>

CallFacilityFromStr ==
    /\ call = NoCall
    /\ \E s \in NameInputs :
        call' = [fn |-> "facility_from_str", s |-> s,
                 ret |-> FacilityFromStr(s)]
    /\ UNCHANGED <<drain_vars, sbuilder, builder, streamer, logged>>

CallLevelFromStr ==
    /\ call = NoCall
    /\ \E s \in NameInputs :
        call' = [fn |-> "level_from_str", s |-> s, ret |-> LevelFromStr(s)]
    /\ UNCHANGED <<drain_vars, sbuilder, builder, streamer, logged>>

NextPure ==
    \/ CallOverlay
    \/ CallEq
    \/ CallWriteStr
    \/ CallFmt
    \/ CallFormat
    \/ CallFacilityFromStr
    \/ CallLevelFromStr
    \/ CallIntoBuilder
    \/ CallConfiguredPriority
    \/ CallLogPriority

SpecPure == Init /\ [][NextPure]_vars

(***************************************************************************)
(* Reading the history.                                                     *)
(***************************************************************************)
EvIdx == 1..Len(events)
OpIdx == 1..Len(ops)

\* Indices of the events of kind op made by operation id.
EventsOf(id, op) == {k \in EvIdx : events[k].op = op /\ events[k].id = id}

Built(d) == \E i \in OpIdx : ops[i].kind = "build" /\ ops[i].d = d
BuildOp(d) == CHOOSE i \in OpIdx : ops[i].kind = "build" /\ ops[i].d = d
DropOp(d) == CHOOSE i \in OpIdx : ops[i].kind = "drop" /\ ops[i].d = d

\* The openlog call that built drain d, and the ident passed to it.
OpenIdx(d) == CHOOSE k \in EvIdx : k \in EventsOf(BuildOp(d), "OpenLog")
IdentOf(d) == events[OpenIdx(d)].ident
Owned(d) == IdentOf(d) \in Addr

Dropped(d) == drains[d].state = "dropped"

\* No drain was constructed between the construction of d and the release
\* of its ident.
NoOpenBetween(d) ==
    \A k \in EvIdx :
        (k > OpenIdx(d) /\ events[k].op = "OpenLog")
            => \E f \in EventsOf(DropOp(d), "DropOwnedIdent") : f < k

\* A drain with a non-null ident was constructed after d and before the drop
\* of d began.
Replaced(d) ==
    \E k \in EvIdx :
        /\ OpenIdx(d) < k
        /\ k <= ops[DropOp(d)].at
        /\ events[k].op = "OpenLog"
        /\ events[k].ident # NullPtr

(***************************************************************************)
(* C1: a drain constructed with an owned ident and dropped with no other    *)
(* drain constructed in between causes exactly one closelog call and        *)
(* exactly one release of its ident string, the closelog call first.        *)
(***************************************************************************)
C1_CloseThenFree ==
    \A d \in DrainIds :
        (Dropped(d) /\ Owned(d) /\ NoOpenBetween(d)) =>
            LET closes == EventsOf(DropOp(d), "CloseLog")
                frees == EventsOf(DropOp(d), "DropOwnedIdent")
                \* From the construction of d to the release by its drop.
                During(k) == k > OpenIdx(d) /\ \E f \in frees : k <= f
            IN  /\ Cardinality(closes) = 1
                /\ Cardinality(frees) = 1
                /\ {k \in EvIdx : events[k].op = "CloseLog" /\ During(k)}
                        = closes
                /\ {k \in EvIdx : events[k].op = "DropOwnedIdent"
                                   /\ events[k].a = IdentOf(d) /\ During(k)}
                        = frees
                /\ \A c \in closes, f \in frees : c < f

C1_Witness ==
    \E d \in DrainIds : Dropped(d) /\ Owned(d) /\ NoOpenBetween(d)

(***************************************************************************)
(* C2: dropping a drain that is not the recorded owner never calls          *)
(* closelog: neither a drain without an owned ident, nor a drain with an    *)
(* owned ident after which a drain with a non-null ident was constructed    *)
(* while it was alive; the latter's ident is still released exactly once.   *)
(***************************************************************************)
C2_NoCloseUnlessOwner ==
    \A d \in DrainIds :
        Dropped(d) =>
            /\ ~Owned(d) =>
                /\ EventsOf(DropOp(d), "CloseLog") = {}
                /\ EventsOf(DropOp(d), "DropOwnedIdent") = {}
            /\ (Owned(d) /\ Replaced(d)) =>
                /\ EventsOf(DropOp(d), "CloseLog") = {}
                /\ Cardinality(EventsOf(DropOp(d), "DropOwnedIdent")) = 1
                /\ \A f \in EventsOf(DropOp(d), "DropOwnedIdent") :
                        events[f].a = IdentOf(d)

C2_Witness ==
    \E d \in DrainIds : Dropped(d) /\ Owned(d) /\ Replaced(d)

(***************************************************************************)
(* C3: the ident pointer the transport retains never refers to an owned     *)
(* ident string that has been released.                                     *)
(***************************************************************************)
C3_NoDanglingIdent ==
    transport.ident \in Addr => heap[transport.ident] = "live"

\* An owned ident has been released while the transport retains another.
C3_Witness ==
    /\ transport.ident \in Addr
    /\ \E a \in Addr : heap[a] = "freed"

(***************************************************************************)
(* C4 (as written): constructing a drain whose ident is absent or borrowed  *)
(* leaves the recorded owner address as it was; only an owned ident changes *)
(* it, to that ident's address.                                             *)
(***************************************************************************)
FbPcs == {"fb_lock", "fb_open", "fb_update", "fb_unlock"}

C4_Original ==
    [][\A t \in Threads :
        (pc[t] \in FbPcs /\ pc'[t] # pc[t]) =>
            last_unique_ident' =
                IF pc[t] = "fb_update" /\ loc[t].unique_ident # NullPtr
                THEN loc[t].unique_ident
                ELSE last_unique_ident]_vars

(***************************************************************************)
(* C4 (amended): constructing a drain leaves the recorded owner address as  *)
(* it was when the ident is absent, sets it to null when the ident is       *)
(* borrowed, and sets it to the ident's address when the ident is owned.    *)
(***************************************************************************)
C4_OwnerAfterConstruction ==
    [][\A t \in Threads :
        (pc[t] \in FbPcs /\ pc'[t] # pc[t]) =>
            last_unique_ident' =
                IF pc[t] # "fb_update" \/ loc[t].ident = NullPtr
                THEN last_unique_ident
                ELSE IF loc[t].unique_ident # NullPtr
                THEN loc[t].unique_ident
                ELSE NullPtr]_vars

\* A borrowed ident has just replaced the record of an owned one.
C4_Witness ==
    \E t \in Threads :
        /\ pc[t] = "fb_unlock"
        /\ loc[t].ident = StaticIdent
        /\ last_unique_ident = NullPtr
        /\ Len(events) >= 2
        /\ events[Len(events)].op = "OpenLog"
        /\ events[Len(events)].id = loc[t].op
        /\ events[Len(events) - 1].op = "OpenLog"
        /\ events[Len(events) - 1].ident \in Addr

(***************************************************************************)
(* C5: every openlog and closelog call and every access to the recorded     *)
(* owner address is made by the thread holding the mutex, and the thread    *)
(* keeps the mutex from the transport call to the end of its bookkeeping.   *)
(***************************************************************************)
CritPcs == {"fb_open", "fb_update", "fb_unlock", "d_cmp", "d_reset",
            "d_unlock"}

OpenOrCloseCalled ==
    /\ Len(events') > Len(events)
    /\ events'[Len(events')].op \in {"OpenLog", "CloseLog"}

C5_Inv == \A t \in Threads : pc[t] \in CritPcs => lock_holder = t

C5_Step ==
    (transport' # transport \/ last_unique_ident' # last_unique_ident
        \/ OpenOrCloseCalled)
    => \E t \in Threads :
        /\ lock_holder = t
        /\ lock_holder' = t
        /\ pc[t] \in CritPcs
        /\ pc'[t] \in CritPcs
        /\ pc'[t] # pc[t]
        /\ \A u \in Threads \ {t} : pc'[u] = pc[u]

C5_LockedSections == []C5_Inv /\ [][C5_Step]_vars

\* One thread is between openlog and its bookkeeping while another waits
\* for the mutex.
C5_Witness ==
    \E t, u \in Threads :
        /\ t # u
        /\ pc[t] = "fb_update"
        /\ pc[u] \in {"fb_lock", "d_lock"}

(***************************************************************************)
(* C6: log performs the transport write (the syslog call) while the thread  *)
(* that logs holds the mutex, so no write happens while another thread is   *)
(* between taking the mutex and releasing it around openlog or closelog.    *)
(* Stated as in the specification; it fails because log never takes the     *)
(* mutex.                                                                   *)
(***************************************************************************)
SysLogCalled ==
    /\ Len(events') > Len(events)
    /\ events'[Len(events')].op = "SysLog"

C6_Original ==
    [][SysLogCalled =>
            lock_holder = ops[events'[Len(events')].id].t]_vars

(***************************************************************************)
(* C7: dropping a drain that owns an ident while the mutex is poisoned      *)
(* completes without a panic, calls no closelog, does not release the       *)
(* ident and leaves the recorded owner address unchanged.                   *)
(***************************************************************************)
C7_Step ==
    \A t \in Threads :
        (pc[t] = "d_lock" /\ pc'[t] # "d_lock" /\ poisoned) =>
            /\ pc'[t] = "idle"
            /\ ops'[loc[t].op].ret = "Ok"
            /\ events' = events
            /\ heap' = heap
            /\ last_unique_ident' = last_unique_ident
            /\ transport' = transport
            /\ drains'[loc[t].d].state = "leaked"

C7_Inv ==
    \A d \in DrainIds :
        drains[d].state = "leaked" =>
            /\ heap[IdentOf(d)] = "live"
            /\ ops[DropOp(d)].ret = "Ok"
            /\ \A k \in EvIdx : events[k].id # DropOp(d)

C7_PoisonedDropLeaks == []C7_Inv /\ [][C7_Step]_vars

\* The leaked ident is the recorded owner's: the drop would have closed.
C7_Witness ==
    \E d \in DrainIds :
        /\ drains[d].state = "leaked"
        /\ last_unique_ident = IdentOf(d)

(***************************************************************************)
(* C8: one configuration is active at a time.  Constructing a drain         *)
(* replaces the transport's facility and options (and its ident, when the   *)
(* new one is non-null) whatever drains are alive, the drop of the recorded *)
(* owner resets the whole configuration whatever drains are alive, and      *)
(* every submission goes out under the configuration that is active then,   *)
(* not under the one its drain was built with.  Stated as in the            *)
(* specification; it fails where closelog resets the ident alone.           *)
(***************************************************************************)
\* The last openlog or closelog call before event k, or 0.
LastOpenOrClose(k) ==
    LET js == {j \in 1..(k - 1) : events[j].op \in {"OpenLog", "CloseLog"}}
    IN  IF js = {} THEN 0 ELSE CHOOSE j \in js : \A i \in js : i <= j

\* The ident libc retains before event k.
IdentBefore(k) ==
    LET c == {j \in 1..(k - 1) : events[j].op = "CloseLog"}
        lastClose == IF c = {} THEN 0 ELSE CHOOSE j \in c : \A i \in c : i <= j
        o == {j \in (lastClose + 1)..(k - 1) :
                events[j].op = "OpenLog" /\ events[j].ident # NullPtr}
    IN  IF o = {} THEN NullPtr
        ELSE events[CHOOSE j \in o : \A i \in o : i <= j].ident

\* The configuration before event k when closelog resets all of it.
ResetBefore(k) ==
    LET j == LastOpenOrClose(k) IN
    IF j = 0 \/ events[j].op = "CloseLog"
    THEN TransportUnopened
    ELSE [ident |-> IdentBefore(k), option |-> events[j].flags,
          facility |-> events[j].facility]

LogOps == {i \in OpIdx : ops[i].kind = "log"}

\* The outcome of formatting the record of log call i.
FmtErrOf(i) == Format(drains[ops[i].d].format, <<>>, Records[ops[i].r]).err

Expected(i) == IF FmtErrOf(i) # "none" THEN 2 ELSE 1

C9_SubmissionsInCallOrder ==
    /\ \A i \in LogOps :
        LET n == Cardinality(EventsOf(i, "SysLog")) IN
        /\ n <= Expected(i)
        /\ ops[i].ret # "pending" => n = Expected(i)
    /\ \A k1, k2 \in EvIdx :
        (/\ k1 < k2
         /\ events[k1].op = "SysLog"
         /\ events[k2].op = "SysLog"
         /\ ops[events[k1].id].t = ops[events[k2].id].t)
            => events[k1].id <= events[k2].id

\* One thread logged twice through one drain, once with a formatting error.
C9_Witness ==
    \E i, j \in LogOps :
        /\ i < j
        /\ ops[i].t = ops[j].t
        /\ ops[i].d = ops[j].d
        /\ ops[i].ret = "Ok"
        /\ ops[j].ret = "Ok"
        /\ Expected(i) # Expected(j)

(***************************************************************************)
(* C10: when the formatter fails, log returns Ok after two submissions:     *)
(* the bare message at the record's priority with format "%s", then the     *)
(* text of the formatting error at LOG_ERR with the diagnostic format.      *)
(***************************************************************************)
C10_FormatErrorFallback ==
    \A i \in LogOps :
        (ops[i].ret # "pending" /\ FmtErrOf(i) # "none") =>
            /\ ops[i].ret = "Ok"
            /\ \E k1, k2 \in EvIdx :
                /\ k1 < k2
                /\ EventsOf(i, "SysLog") = {k1, k2}
                /\ events[k1].priority =
                        (IF drains[ops[i].d].log_priority > 0
                         THEN drains[ops[i].d].log_priority
                         ELSE get_priority(Records[ops[i].r].level))
                /\ events[k1].message_f = "%s"
                /\ events[k1].message
                        = make_cstr_lossy(Records[ops[i].r].msg)
                /\ events[k2].priority = LOG_ERR
                /\ events[k2].message_f =
                        "Error fully formatting the previous log message: %s"
                /\ events[k2].message = make_cstr_lossy(ErrText(FmtErrOf(i)))

\* The formatter had written part of its output before it failed.
C10_Witness ==
    \E i \in LogOps :
        /\ ops[i].ret = "Ok"
        /\ FmtErrOf(i) # "none"
        /\ MsgFormatFmt(drains[ops[i].d].format, Records[ops[i].r]).out # <<>>

(***************************************************************************)
(* C11: TL_BUF of a thread is empty whenever log is not running on that     *)
(* thread, whichever way log was left, so the text of a submission is what  *)
(* formatting the record into an empty buffer gives.  Stated as in the      *)
(* specification; it fails when the formatting code panics.                 *)
(***************************************************************************)
C11_Original ==
    /\ \A t \in Threads : pc[t] \notin LogPcs => tl_buf[t] = <<>>
    /\ \A k \in EvIdx :
        (events[k].op = "SysLog" /\ events[k].message_f = MessageF) =>
            LET i == events[k].id IN
            events[k].message
                = FormattedBuf(drains[ops[i].d].format, <<>>, Records[ops[i].r])

(***************************************************************************)
(* C12: a Streamer3164 started from a SyslogBuilder on which level was      *)
(* called formats and submits nothing for a record that is not at least at  *)
(* that level, returning Ok, and submits a record that is.  Stated as in    *)
(* the specification; it fails because start never reads the level.         *)
(***************************************************************************)
C12_Original ==
    \A i \in 1..Len(logged) :
        builder.level # "None" =>
            IF is_at_least(logged[i].level, builder.level)
            THEN logged[i].submitted
            ELSE /\ ~logged[i].submitted
                 /\ ~logged[i].formatted
                 /\ logged[i].ret = "Ok"

(***************************************************************************)
(* C13: what log submits for a record carries the priority the configured   *)
(* mapper returns for the record (Adapter::priority, or the closure given   *)
(* to SyslogBuilder::priority; a priority fixed on the drain counts as its  *)
(* mapper), with the facility of the builder filled in only when that       *)
(* priority names none.  Stated as in the specification; it fails because   *)
(* log consults neither the mapper nor the facility of the builder.         *)
(***************************************************************************)
\* The builder settings drain d was built from.
ConfigOf(d) ==
    CHOOSE c \in Configs : c.facility = events[OpenIdx(d)].facility

C13_Original ==
    \A k \in EvIdx :
        (events[k].op = "SysLog" /\ events[k].message_f = MessageF) =>
            LET i == events[k].id
                cfg == ConfigOf(ops[i].d)
                mapped == IF cfg.log_priority > 0
                          THEN from_raw(cfg.log_priority)
                          ELSE BuilderAdapterPriority(cfg.priority_fn,
                                                      Records[ops[i].r])
                default == PriorityNew("Notice",
                                       FacilityFromInt(cfg.facility))
            IN  events[k].priority = into_raw(overlay(mapped, default))

(***************************************************************************)
(* C14: the default mapping of slog levels is the table Critical->Crit,     *)
(* Error->Err, Warning->Warning, Info->Info, Debug->Debug, Trace->Debug;    *)
(* get_priority and Level::from_slog implement the same table, and a drain  *)
(* without a priority of its own submits a record with that value.          *)
(***************************************************************************)
C14_DefaultSeverityTable ==
    /\ from_slog("Critical") = "Crit"
    /\ from_slog("Error") = "Err"
    /\ from_slog("Warning") = "Warning"
    /\ from_slog("Info") = "Info"
    /\ from_slog("Debug") = "Debug"
    /\ from_slog("Trace") = "Debug"
    /\ \A l \in SlogLevels : get_priority(l) = LevelToInt(from_slog(l))
    /\ \A l \in SlogLevels : LogPriority(0, l) = LevelToInt(from_slog(l))
    /\ \A t \in Threads :
        (pc[t] = "log_sys1" /\ drains[loc[t].d].log_priority = 0) =>
            loc[t].priority = LevelToInt(from_slog(Records[loc[t].r].level))
    /\ \A k \in EvIdx :
        (/\ events[k].op = "SysLog"
         /\ events[k].message_f = MessageF
         /\ drains[ops[events[k].id].d].log_priority = 0)
            => events[k].priority
                = LevelToInt(from_slog(Records[ops[events[k].id].r].level))

\* Drains without a priority of their own submitted records of two levels.
C14_Witness ==
    \E k1, k2 \in EvIdx :
        /\ events[k1].op = "SysLog"
        /\ events[k2].op = "SysLog"
        /\ events[k1].message_f = MessageF
        /\ events[k2].message_f = MessageF
        /\ drains[ops[events[k1].id].d].log_priority = 0
        /\ drains[ops[events[k2].id].d].log_priority = 0
        /\ events[k1].priority = LOG_WARNING
        /\ events[k2].priority = LOG_ERR

(***************************************************************************)
(* C15: P.overlay(Q) keeps the facility of P when P has one; it is          *)
(* (P's level, f) when P is symbolic without a facility and Q is symbolic   *)
(* with facility f; in every other case it is P.  Its level is P's level.   *)
(***************************************************************************)
C15_OverlayFillsAbsentFacility ==
    call.fn = "overlay" =>
        LET P == call.self
            Q == call.other
            R == call.ret
            fills == /\ P.kind = "Normal"
                     /\ P.facility = "None"
                     /\ Q.kind = "Normal"
                     /\ Q.facility # "None"
        IN  /\ PriorityFacility(P) # "None"
                => PriorityFacility(R) = PriorityFacility(P)
            /\ fills => /\ R.kind = "Normal"
                        /\ PriorityLevel(R) = P.level
                        /\ PriorityFacility(R) = Q.facility
            /\ ~fills => R = P
            /\ PriorityLevel(R) = PriorityLevel(P)

\* overlay was applied to a priority with a facility and another facility.
C15_Witness ==
    /\ call.fn = "overlay"
    /\ PriorityFacility(call.self) # "None"
    /\ PriorityFacility(call.other) # "None"
    /\ PriorityFacility(call.other) # PriorityFacility(call.self)

(***************************************************************************)
(* C16: two priorities are equal, and feed the same value to a Hasher,      *)
(* exactly when their numeric encodings are equal: level value | facility   *)
(* value for a symbolic priority (the level value alone without facility),  *)
(* the raw number for a raw one.  A symbolic priority equals the raw        *)
(* priority built from its encoding.                                        *)
(***************************************************************************)
C16_EqualityOnEncoding ==
    call.fn = "eq" =>
        LET \* Level values are below 8 and facility values are multiples
            \* of 8, so that | adds them.
            Encoding(p) ==
                IF p.kind = "Raw" THEN p.raw
                ELSE LevelToInt(p.level)
                        + (IF p.facility = "None" THEN 0
                           ELSE FacilityToInt(p.facility))
            P == call.self
            Q == call.other
        IN  /\ call.ret <=> (Encoding(P) = Encoding(Q))
            /\ (call.hash_self = call.hash_other)
                    <=> (Encoding(P) = Encoding(Q))
            /\ into_raw(P) = Encoding(P)
            /\ PriorityEq(P, from_raw(into_raw(P)))
            /\ (P.kind = "Normal" /\ Q = from_raw(Encoding(P))) => call.ret

\* A symbolic priority with a facility was compared with the raw priority
\* of the same encoding.
C16_Witness ==
    /\ call.fn = "eq"
    /\ call.self.kind = "Normal"
    /\ call.self.facility \notin {"None", "Kern"}
    /\ call.other.kind = "Raw"
    /\ call.ret

(***************************************************************************)
(* C17: the value escaper copies its input in order, with one backslash     *)
(* inserted before every backslash, double quote and closing bracket and    *)
(* nothing else changed; the call fails exactly when a write to its sink    *)
(* fails.                                                                   *)
(***************************************************************************)
RECURSIVE BackslashPrefixed(_)
\* The input with a backslash before each of the three delimiters.
BackslashPrefixed(s) ==
    IF s = <<>> THEN <<>>
    ELSE (IF Head(s) \in {Backslash, DQuote, RBracket}
          THEN <<Backslash, Head(s)>>
          ELSE <<Head(s)>>) \o BackslashPrefixed(Tail(s))

\* The sink calls write_str makes for s: one for each delimiter and one for
\* each maximal run of other bytes.
SinkCallsNeeded(s) ==
    Cardinality({i \in 1..Len(s) :
        \/ s[i] \in {Backslash, DQuote, RBracket}
        \/ i = 1
        \/ s[i - 1] \in {Backslash, DQuote, RBracket}})

C17_EscapesThreeDelimiters ==
    call.fn = "write_str" =>
        /\ call.err <=> SinkCallsNeeded(call.s) > call.left
        /\ ~call.err =>
            /\ call.ret = BackslashPrefixed(call.s)
            /\ call.ret = EscaperWriteStr(call.s)
            /\ Len(call.ret) = Len(call.s)
                + Cardinality({i \in 1..Len(call.s) :
                                call.s[i] \in {Backslash, DQuote, RBracket}})

\* The input held a closing bracket, and an opening bracket, a control
\* character or a non-ASCII byte.
C17_Witness ==
    /\ call.fn = "write_str"
    /\ \E i, j \in 1..Len(call.s) :
        /\ call.s[i] = RBracket
        /\ call.s[j] \in {LBracket, 10, 195}
    /\ ~call.err
    /\ Len(call.ret) > Len(call.s)

(***************************************************************************)
(* C18: removing the backslash that starts each escaped pair of escape(S)   *)
(* gives S again, so no two strings have the same escaped form; a string    *)
(* without backslash, double quote and closing bracket is its own escaped   *)
(* form.                                                                    *)
(***************************************************************************)
RECURSIVE Unescape(_)
\* A backslash is dropped and the byte after it is kept as it is.
Unescape(s) ==
    IF s = <<>> THEN <<>>
    ELSE IF Head(s) = Backslash /\ Len(s) >= 2
    THEN <<s[2]>> \o Unescape(SubSeq(s, 3, Len(s)))
    ELSE <<Head(s)>> \o Unescape(Tail(s))

C18_EscapeIsReversible ==
    call.fn = "write_str" /\ ~call.err =>
        /\ Unescape(call.ret) = call.s
        /\ \A s2 \in Strings : EscaperWriteStr(s2) = call.ret => s2 = call.s
        /\ (\A i \in 1..Len(call.s) :
                call.s[i] \notin {Backslash, DQuote, RBracket})
            => call.ret = call.s

\* The input held a backslash followed by another delimiter.
C18_Witness ==
    /\ call.fn = "write_str"
    /\ ~call.err
    /\ \E i \in 1..(Len(call.s) - 1) :
        /\ call.s[i] = Backslash
        /\ call.s[i + 1] \in {Backslash, DQuote, RBracket}

(***************************************************************************)
(* C19: when every attribute serializes, the default format writes the      *)
(* message alone if the logger and the record have no attributes, and       *)
(* otherwise the message, a space, '[', the attributes as                   *)
(* key="escaped-value" separated by single spaces, and ']': the logger's    *)
(* attributes first, keys unescaped, repeated keys kept, and ']' written    *)
(* exactly when an attribute was.                                           *)
(***************************************************************************)
\* key="escaped-value"
AttributeText(kv) ==
    kv.key \o <<Equals, DQuote>> \o BackslashPrefixed(kv.val) \o <<DQuote>>

RECURSIVE SpaceSeparated(_)
\* The attributes in order, with one space between neighbours.
SpaceSeparated(kvs) ==
    IF kvs = <<>> THEN <<>>
    ELSE IF Len(kvs) = 1 THEN AttributeText(kvs[1])
    ELSE AttributeText(kvs[1]) \o <<Space>> \o SpaceSeparated(Tail(kvs))

C19_DefaultFormatLayout ==
    call.fn = "fmt" /\ call.ret.err = "none" =>
        LET attrs == call.record.values \o call.record.kv
            out == call.ret.out
        IN  /\ attrs = <<>> => out = call.record.msg
            /\ attrs # <<>> =>
                out = call.record.msg \o <<Space, LBracket>>
                        \o SpaceSeparated(attrs) \o <<RBracket>>
            /\ (Len(out) > Len(call.record.msg) /\ out[Len(out)] = RBracket)
                <=> attrs # <<>>

\* A logger attribute and two record attributes, one key used twice, a key
\* holding a closing bracket and a value holding a double quote.
C19_Witness ==
    /\ call.fn = "fmt"
    /\ call.ret.err = "none"
    /\ Len(call.record.values) >= 1
    /\ Len(call.record.kv) = 2
    /\ call.record.values[1].key = call.record.kv[2].key
    /\ call.record.values[1] # call.record.kv[1]
    /\ \E i \in 1..2 : RBracket \in {call.record.kv[i].key[j] :
                                      j \in 1..Len(call.record.kv[i].key)}

(***************************************************************************)
(* C20: format returns Ok only when fmt and the writer both succeeded; it   *)
(* returns Err(Io) when the writer reported an I/O error, whatever fmt      *)
(* returned; otherwise it returns the error fmt returned, unchanged.        *)
(***************************************************************************)
C20_Original ==
    call.fn = "format" =>
        /\ call.ret = "Ok" => ~call.fmt.io /\ call.fmt.err = "none"
        /\ call.fmt.io => call.ret = "Io"
        /\ ~call.fmt.io /\ call.fmt.err # "none" => call.ret = call.fmt.err

(***************************************************************************)
(* C21: every byte string SyslogDrain::log hands to syslog holds exactly    *)
(* one NUL byte, its last byte, and the bytes before it are the text that   *)
(* was formatted with its NUL bytes removed and its other bytes in order.   *)
(***************************************************************************)
NotNul(b) == b # NUL

\* The text log formats for the submission events[k]: the formatter's
\* output, the bare message after a formatting error, or the error's text.
TextOf(k) ==
    LET o == ops[events[k].id]
        f == Format(drains[o.d].format, <<>>, Records[o.r])
    IN  IF events[k].message_f = ErrorMessageF THEN ErrText(f.err)
        ELSE IF f.err # "none" THEN Records[o.r].msg
        ELSE f.buf

C21_OneTrailingNul ==
    \A k \in EvIdx :
        events[k].op = "SysLog" =>
            LET m == events[k].message IN
            /\ Len(m) >= 1
            /\ m[Len(m)] = NUL
            /\ \A i \in 1..(Len(m) - 1) : m[i] # NUL
            /\ SubSeq(m, 1, Len(m) - 1) = SelectSeq(TextOf(k), NotNul)

\* A formatter output with a NUL byte inside and a bare message with a NUL
\* byte inside have both been submitted.
C21_Witness ==
    \E j, k \in EvIdx :
        /\ events[j].op = "SysLog" /\ events[k].op = "SysLog"
        /\ events[j].message_f = MessageF /\ events[k].message_f = MessageF
        /\ FmtErrOf(events[j].id) = "none"
        /\ FmtErrOf(events[k].id) # "none"
        /\ \E i \in 1..Len(TextOf(j)) : TextOf(j)[i] = NUL
        /\ \E i \in 1..Len(TextOf(k)) : TextOf(k)[i] = NUL

(***************************************************************************)
(* C22: after any sequence of SyslogBuilder setters the option word never   *)
(* holds both LOG_NDELAY and LOG_ODELAY; of log_ndelay and log_odelay the   *)
(* one called last decides, and each of the two leaves the other option     *)
(* bits, the facility, the ident and the adapter as they were.              *)
(***************************************************************************)
HasFlag(option, flag) == BitAndNot(option, flag) # option

OtherFlags == {LOG_PID, LOG_NOWAIT, LOG_PERROR}

\* Whether a delay setter has been called and which one was called last is
\* read off the option word: no other setter touches the two bits.
C22_DelayFlagsExclusive ==
    /\ ~(HasFlag(sbuilder.option, LOG_NDELAY)
            /\ HasFlag(sbuilder.option, LOG_ODELAY))
    /\ call.fn = "log_ndelay" =>
        /\ HasFlag(call.ret.option, LOG_NDELAY)
        /\ ~HasFlag(call.ret.option, LOG_ODELAY)
    /\ call.fn = "log_odelay" =>
        /\ HasFlag(call.ret.option, LOG_ODELAY)
        /\ ~HasFlag(call.ret.option, LOG_NDELAY)
    /\ call.fn \in {"log_ndelay", "log_odelay"} =>
        /\ \A f \in OtherFlags :
            HasFlag(call.ret.option, f) <=> HasFlag(call.self.option, f)
        /\ call.ret.facility = call.self.facility
        /\ call.ret.ident = call.self.ident
        /\ call.ret.adapter = call.self.adapter
    /\ call.fn \in {"facility", "ident", "log_pid", "log_nowait",
                    "log_perror", "adapter"} =>
        /\ HasFlag(call.ret.option, LOG_NDELAY)
            <=> HasFlag(call.self.option, LOG_NDELAY)
        /\ HasFlag(call.ret.option, LOG_ODELAY)
            <=> HasFlag(call.self.option, LOG_ODELAY)

\* log_ndelay has just been called on a builder that had LOG_ODELAY and
\* other option bits set and a facility, ident and adapter of its own.
C22_Witness ==
    /\ call.fn = "log_ndelay"
    /\ HasFlag(call.self.option, LOG_ODELAY)
    /\ HasFlag(call.self.option, LOG_PID)
    /\ HasFlag(call.self.option, LOG_PERROR)
    /\ call.self.facility = "Local0"
    /\ call.self.ident = "Owned"
    /\ call.self.adapter = "Basic"
    /\ sbuilder = call.ret

(***************************************************************************)
(* C23: from_str of a name that matches no variant, letter case aside,      *)
(* returns an error whose name() is the string that was given; from_str of  *)
(* a known name, and of the name() of every variant, returns the variant.   *)
(***************************************************************************)
C23_Original ==
    /\ call.fn = "facility_from_str" =>
        /\ ~call.ret.ok => call.ret.name = call.s
        /\ \A f \in FacilityVariants :
            to_ascii_lowercase(call.s) = FacilityName(f)
                => call.ret.ok /\ call.ret.value = f
    /\ call.fn = "level_from_str" =>
        /\ ~call.ret.ok => call.ret.name = call.s
        /\ \A l \in SyslogLevels :
            to_ascii_lowercase(call.s) \in {LevelName(l), LevelAlias(l)}
                => call.ret.ok /\ call.ret.value = l

(***************************************************************************)
(* C24: start never fails because the hostname or the name of the process   *)
(* could not be detected: a value that was not given and cannot be detected *)
(* is left absent, and start fails only when the transport cannot be        *)
(* opened.  Stated as in the specification; it fails because a process name *)
(* that cannot be detected makes start return an error.                     *)
(***************************************************************************)
C24_Original ==
    streamer # NoStreamer =>
        /\ streamer.env.connect = "Ok" => streamer.started
        /\ streamer.err # "none" => streamer.env.connect = "Err"
        /\ streamer.started /\ builder.hostname = "None"
                /\ streamer.env.hostname = "Err"
            => streamer.hostname = "None"

(***************************************************************************)
(* C25: Streamer3164::log returns Ok exactly when the transport write and   *)
(* the formatting of the message both succeeded; so a failed write always   *)
(* reaches the caller as an error.  An error of the logger whose source is  *)
(* not a bare formatting error is the one returned, also when the formatter *)
(* failed too.                                                              *)
(***************************************************************************)
C25_TransportErrorSurfaces ==
    \A i \in 1..Len(logged) :
        LET l == logged[i] IN
        l.submitted =>
            /\ l.ret = "Ok" <=> (l.write = "Ok" /\ l.fmt_err = "none")
            /\ l.write = "Err" => l.ret # "Ok"
            /\ (~l.log_result.ok /\ l.log_result.source = "io")
                => l.ret = "Logger"
            /\ (l.fmt_err # "none" /\ l.log_result.source = "fmt")
                => l.ret = "Msg"

\* One call whose write failed while the formatter failed too, one whose
\* write alone failed, and one where only the formatter failed.
C25_Witness ==
    \E i, j, k \in 1..Len(logged) :
        /\ logged[i].write = "Err" /\ logged[i].fmt_err # "none"
        /\ logged[i].ret = "Logger"
        /\ logged[j].write = "Err" /\ logged[j].fmt_err = "none"
        /\ logged[k].write = "Ok" /\ logged[k].fmt_err # "none"
        /\ logged[k].ret = "Msg"

(***************************************************************************)
(* C26: a SyslogConfig with log_delay true gives a builder with LOG_NDELAY  *)
(* set and LOG_ODELAY clear, with log_delay false one with LOG_ODELAY set   *)
(* and LOG_NDELAY clear, and with log_delay unset one with neither.  Stated *)
(* as in the documentation of the field; it fails because into_builder      *)
(* calls log_odelay for true and log_ndelay for false.                      *)
(***************************************************************************)
C26_Original ==
    call.fn = "into_builder" =>
        LET opt == call.ret.option IN
        /\ call.self.log_delay = "true" =>
            HasFlag(opt, LOG_NDELAY) /\ ~HasFlag(opt, LOG_ODELAY)
        /\ call.self.log_delay = "false" =>
            HasFlag(opt, LOG_ODELAY) /\ ~HasFlag(opt, LOG_NDELAY)
        /\ call.self.log_delay = "None" =>
            ~HasFlag(opt, LOG_NDELAY) /\ ~HasFlag(opt, LOG_ODELAY)

(***************************************************************************)
(* C27: ConfiguredAdapter::priority, for the entry P of the record's level  *)
(* (info for Info) and the entry A for all: P.overlay(A) when both are set, *)
(* A when only A is, P when only P is, and the default mapping of the level *)
(* without a facility when neither is.  So a set P decides the level, and A *)
(* gives at most the facility.                                              *)
(***************************************************************************)
EntryFor(level) ==
    [Critical |-> "critical", Error |-> "error", Warning |-> "warning",
     Info |-> "info", Debug |-> "debug", Trace |-> "trace"][level]

DefaultSeverity(level) ==
    [Critical |-> "Crit", Error |-> "Err", Warning |-> "Warning",
     Info |-> "Info", Debug |-> "Debug", Trace |-> "Debug"][level]

C27_ConfiguredPriority ==
    call.fn = "priority" =>
        LET P == call.self[EntryFor(call.level)]
            A == call.self["all"]
            ret == call.ret
        IN  /\ P # NoPriority /\ A # NoPriority => ret = overlay(P, A)
            /\ P = NoPriority /\ A # NoPriority => ret = A
            /\ P # NoPriority /\ A = NoPriority => ret = P
            /\ P = NoPriority /\ A = NoPriority =>
                ret = PriorityNew(DefaultSeverity(call.level), "None")
            /\ P # NoPriority =>
                /\ PriorityLevel(ret) = PriorityLevel(P)
                /\ into_raw(ret) % 8 = into_raw(P) % 8
                /\ \/ ret = P
                   \/ /\ PriorityFacility(P) = "None"
                      /\ A # NoPriority
                      /\ ret = PriorityNew(PriorityLevel(P),
                                           PriorityFacility(A))

\* The record's entry holds a level alone, the entry for all a level and a
\* facility, and the other entries differ from the record's.
C27_Witness ==
    /\ call.fn = "priority"
    /\ call.level = "Warning"
    /\ call.self["warning"] = PriorityNew("Err", "None")
    /\ call.self["all"] = PriorityNew("Notice", "Mail")
    /\ call.self["info"] = from_raw(LOG_USER + LOG_ALERT)
    /\ call.self["error"] = NoPriority
    /\ call.ret = PriorityNew("Err", "Mail")

(***************************************************************************)
(* C28: a drain configured with a fixed priority submits every record with  *)
(* that priority, whatever the record's level, for every priority value, 0  *)
(* (LOG_KERN | LOG_EMERG) included.  Stated as in the specification; it     *)
(* fails because log uses the field only when it is greater than 0.         *)
(***************************************************************************)
C28_Original ==
    call.fn = "log_priority" => call.ret = call.log_priority

(***************************************************************************)
(* C29: while the mutex is not poisoned, whoever finds it unlocked finds in *)
(* it either null or the address of the owned ident of a drain that has not *)
(* been dropped, and that ident is then the last non-null ident given to    *)
(* openlog.  So two closelog calls always have a construction with an owned *)
(* ident between them, and there are never more closelog calls than drops   *)
(* of drains that own their ident.                                          *)
(***************************************************************************)
\* The OpenLog events with a non-null ident.
NonNullOpens == {k \in EvIdx : events[k].op = "OpenLog"
                                /\ events[k].ident # NullPtr}

CloseLogs == {k \in EvIdx : events[k].op = "CloseLog"}

\* A drain that holds the ident at address a: one that is alive, or one
\* whose drop has not reached the mutex yet.
HeldBy(a) ==
    \/ \E d \in DrainIds :
        drains[d].state = "alive" /\ drains[d].unique_ident = a
    \/ \E t \in Threads : pc[t] = "d_lock" /\ loc[t].unique_ident = a

C29_RecordedOwner ==
    /\ last_unique_ident # NullPtr => heap[last_unique_ident] = "live"
    /\ (lock_holder = 0 /\ last_unique_ident # NullPtr) =>
        /\ HeldBy(last_unique_ident)
        /\ NonNullOpens # {}
        /\ \E k \in NonNullOpens :
            /\ \A j \in NonNullOpens : j <= k
            /\ events[k].ident = last_unique_ident
    /\ \A j, k \in CloseLogs :
        j < k => \E m \in (j + 1)..(k - 1) :
                    events[m].op = "OpenLog" /\ events[m].ident \in Addr
    /\ \A k \in CloseLogs :
        /\ ops[events[k].id].kind = "drop"
        /\ \A j \in CloseLogs : events[j].id = events[k].id => j = k
    /\ Cardinality(CloseLogs)
        <= Cardinality({i \in OpIdx : ops[i].kind = "drop"
                                        /\ Owned(ops[i].d)})

\* Two drains that owned their idents were built and dropped one after the
\* other, each drop with its closelog, and the record is null again.
C29_Witness ==
    /\ lock_holder = 0
    /\ last_unique_ident = NullPtr
    /\ Cardinality(CloseLogs) = 2
    /\ \E d, e \in DrainIds :
        /\ d # e
        /\ Dropped(d) /\ Owned(d)
        /\ Dropped(e) /\ Owned(e)
    /\ \A t \in Threads : pc[t] = "idle"

(***************************************************************************)
(* C30: the submission "Error fully formatting the previous log message"    *)
(* made for a record comes directly after the submission of that record's   *)
(* bare message: no submission of another thread lies between the two.      *)
(***************************************************************************)
\* The submissions, in the order the transport received them.
Submissions == {k \in EvIdx : events[k].op = "SysLog"}

C30_Original ==
    \A k \in Submissions :
        events[k].message_f = ErrorMessageF
            => \E j \in Submissions :
                /\ j < k
                /\ \A m \in Submissions : m < k => m <= j
                /\ events[j].message_f = MessageF
                /\ events[j].id = events[k].id

====
